---- MODULE Spec2Model ----
(***************************************************************************)
(* Model of the inbox-relay bridges of the claude-skills repository:       *)
(*   src/slack-skill/slack_bridge.py   (Slack Socket Mode bridge)          *)
(*   src/twilio-sms/twilio_bridge.py   (Twilio SMS webhook bridge)         *)
(*   src/crm-bridge/crm_bridge.py      (CRM polling bridge)                *)
(*                                                                         *)
(* Specification Spec is the Slack bridge's work tracker: the push         *)
(* handler threads (handle_message), the cleanup thread                    *)
(* (run_cleanup_loop / cleanup_stuck_work), the pending_work.json mirror   *)
(* and process kill / restart, over a discrete wall clock.                 *)
(* Specification SpecAllow runs the Slack bridge and the SMS bridge's      *)
(* webhook handler (handle_sms) side by side, each with a sender on its    *)
(* allow-list and one who is not.  Specification SpecLife follows one      *)
(* bridge process of any of the three kinds from run_bridge to its end:    *)
(* PID file, signal handlers, stop flag, and one call of run_claude_code   *)
(* with its claude subprocess.  Specification SpecRelay is run_claude_code *)
(* of the three bridges as a function of the subprocess outcome, with      *)
(* calls for the same user overlapping on the bridge's threads.            *)
(* Specification SpecOAuth is the credential resolution of the OAuth       *)
(* skills (twitter, reddit, discord, linkedin, gmail, gcal): get_credentials, *)
(* cmd_login and cmd_logout over the tokens directory, the refresh request *)
(* and the loopback browser flow.  Specification SpecPoll is the main loop *)
(* of the CRM bridge (run_bridge): poll, process_message for each message  *)
(* of the batch, and the wait before the next poll.                        *)
(*                                                                         *)
(* Strings that the code joins and splits (the pending-work file keys) are *)
(* sequences of one-character strings.  Slack Web API calls are taken to   *)
(* succeed; the relay subprocess returns normally at any time before its   *)
(* timeout, or is cut off at the timeout.                                  *)
(***************************************************************************)
EXTENDS Integers, Sequences, FiniteSets, TLC

VARIABLES
  now,            \* wall clock, seconds (time.time())
  up,             \* TRUE while the Slack bridge process is alive
  starts,         \* number of times run_bridge has been started after a kill
  AUTO_RESPOND,   \* slack_bridge.AUTO_RESPOND
  traffic,        \* the messages users post during the run
  PENDING_WORK,   \* insertion-ordered dict: sequence of <<key, object id>>
  heap,           \* the info dict objects, by object id
  file,           \* pending_work.json: sequence of <<key string, info>>
  ACTIVE_THREADS, \* keys (thread ts) of slack_bridge.ACTIVE_THREADS
  USER_SESSIONS,  \* keys (user ids) of slack_bridge.USER_SESSIONS
  hpc,            \* per Slack event: position of its handler thread
  hstart,         \* per Slack event: time its relay was started
  hthread,        \* per Slack event: the handler's reply thread (local variable)
  cpc,            \* position of the cleanup thread
  stuck_items,    \* cleanup_stuck_work's snapshot still to be processed
  cstart,         \* time the cleanup thread's retry relay was started
  wakeAt,         \* time the cleanup thread's stop_event.wait() ends
  reactions,      \* per message key: emoji the bot has on the message
  inbox,          \* events appended to inbox.jsonl
  relays,         \* history: per key, relays started by handle_message
  retries,        \* history: per key, relays started by cleanup_stuck_work
  replies,        \* history: per key, relay results posted to the conversation
  apologies,      \* history: per key, failure apologies posted
  removals,       \* history: per key, times the key was taken out of PENDING_WORK
  goodPasses,     \* history: consecutive all-stuck cleanup passes without a relay success
  passOK          \* history: the current pass is all-stuck with no relay success so far

\* The Twilio SMS bridge's webhook handler (twilio_bridge.handle_sms)
VARIABLES
  ALLOWED_NUMBERS,   \* twilio_bridge.ALLOWED_NUMBERS
  TW_AUTO_RESPOND,   \* twilio_bridge.AUTO_RESPOND
  TW_USER_SESSIONS,  \* keys (phone numbers) of twilio_bridge.USER_SESSIONS
  tpc,               \* per SMS: position of its handler / responder thread
  tstart,            \* per SMS: time its relay was started
  twInbox,           \* entries appended to the SMS bridge's inbox.jsonl
  smsSent,           \* history: per SMS, messages sent back to its sender
  twRelays           \* history: per SMS, relays started for it

\* One bridge process from run_bridge to its end, with one relayed message
VARIABLES
  bridge,         \* which bridge the process runs: "slack", "crm" or "twilio"
  pid,            \* os.getpid()
  lpc,            \* position of the main thread in run_bridge
  pidFile,        \* contents of PID_FILE, or NoFile
  handlers,       \* TRUE once signal.signal has installed signal_handler
  stop_event,     \* stop_event.is_set()
  signalled,      \* the signal delivered to the process, or "none"
  sigTime,        \* time the signal was delivered
  rpc,            \* position of the run_claude_code call
  rstart,         \* time run_claude_code was entered
  childKind,      \* how the spawned claude subprocess behaves
  childExited,    \* the subprocess has exited (poll() is not None)
  stdoutClosed    \* every writer has closed the subprocess's stdout pipe

\* Calls of run_claude_code in one bridge process (the bridge is `bridge`)
VARIABLES
  sessions,       \* keys of the bridge's USER_SESSIONS
  okReturned,     \* history: user keys for which a call has returned normally
  callPc,         \* per call: "idle", "prompt", "running", "returned", "raised"
  callKey,        \* per call: the user key (user id, phone number)
  callPrompt,     \* per call: full_prompt is the "preamble" or the "raw" text
  callCont,       \* per call: cmd contains --continue
  callOutcome,    \* per call: what the spawned subprocess did
  callReply,      \* per call: the string returned, as a sequence of tokens
  callSpawns,     \* history: per call, subprocesses spawned
  callFresh       \* history: per call, no call for its key had returned normally
                  \* when it was entered

slackVars == <<up, starts, AUTO_RESPOND, traffic, PENDING_WORK, heap, file, ACTIVE_THREADS,
               USER_SESSIONS, hpc, hstart, hthread, cpc, stuck_items, cstart, wakeAt,
               reactions, inbox, relays, retries, replies, apologies, removals, goodPasses,
               passOK>>

smsVars == <<ALLOWED_NUMBERS, TW_AUTO_RESPOND, TW_USER_SESSIONS, tpc, tstart, twInbox,
             smsSent, twRelays>>

lifeVars == <<bridge, pid, lpc, pidFile, handlers, stop_event, signalled, sigTime, rpc,
              rstart, childKind, childExited, stdoutClosed>>

\* OAuth credential resolution of one skill (get_credentials, cmd_login and
\* the loopback flow do_oauth_flow / oauth_flow)
VARIABLES
  skill,          \* the skill whose commands run
  tokenFiles,     \* the tokens directory: per file name, None or <<token set>>
  savedAs,        \* per file name, the account names it was saved under
  calls,          \* number of commands run so far
  cmd,            \* the command that runs or ran last
  account,        \* its account argument (NoAccount when omitted)
  opc,            \* position of the command
  auth_code,      \* server.auth_code of the loopback listener
  auth_error,     \* server.auth_error of the loopback listener
  requests,       \* the HTTP requests the listener has handled in this flow
  flowStart,      \* time the listener began to wait
  waitStart,      \* time the current handle_request() call began
  flows,          \* interactive flows started by the command (webbrowser.open)
  exchanges,      \* token-exchange POST requests sent by the command
  refresh,        \* the outcome of the command's refresh request, if any
  loaded,         \* None or <<token set>> get_credentials read from the file
  exchanged,      \* None or <<[response, time]>> of the successful exchange
  before,         \* the tokens directory when the command started
  result,         \* None or <<token set>> the command returned
  returnedAt,     \* time the command returned
  accounts_meta,  \* accounts_meta.json: per user name its label, NoAccount when none
  printed,        \* what cmd_logout printed
  beforeSaved     \* savedAs when the command started

callVars == <<sessions, okReturned, callPc, callKey, callPrompt, callCont, callOutcome,
              callReply, callSpawns, callFresh>>

oauthVars == <<skill, tokenFiles, savedAs, calls, cmd, account, opc, auth_code, auth_error,
               requests, flowStart, waitStart, flows, exchanges, refresh, loaded,
               exchanged, before, result, returnedAt, accounts_meta, printed,
               beforeSaved>>

\* The CRM bridge's main loop (crm_bridge.run_bridge)
VARIABLES
  poll_interval,        \* run_bridge's poll_interval argument (--interval)
  consecutive_failures, \* consecutive_failures[0]
  ppc,                  \* position of the main loop
  polls,                \* number of polls made so far
  messages,             \* the batch poll_for_messages returned in this cycle
  msgIdx,               \* index in messages of the message process_message handles
  effective_interval,   \* the wait computed at the end of the cycle
  poll_stop_event,      \* run_bridge's stop_event
  pollLog,              \* history: what process_message did in this cycle, in order
  pollCaught                \* history: exceptions the loop's except clause has caught

pollVars == <<poll_interval, consecutive_failures, ppc, polls, messages, msgIdx,
              effective_interval, poll_stop_event, pollLog, pollCaught>>

restVars == <<callVars, oauthVars, pollVars>>

vars == <<now, slackVars, smsVars, lifeVars, restVars>>

----------------------------------------------------------------------------
(* Program constants *)

WORK_TIMEOUT == 300
CLEANUP_INTERVAL == 300
SLACK_RELAY_TIMEOUT == 600
TWILIO_RELAY_TIMEOUT == 300
CRM_RELAY_TIMEOUT == 300

EMOJI_WORKING == "hourglass_flowing_sand"
EMOJI_DONE == "white_check_mark"
EMOJI_ACK == "eyes"
EMOJI_ERROR == "x"
EMOJI_RETRY == "arrows_counterclockwise"
EMOJI_NO_ENTRY == "no_entry"

ALLOWED_USERS == {"U04R0EJACMR"}

(* Bounds of the model *)

MaxTime == 1350
MaxStarts == 1

\* The clock advances in steps of half the work timeout.
Tick == WORK_TIMEOUT \div 2

None == <<>>

----------------------------------------------------------------------------
(* The Slack messages of the model.  Every message mentions the bot.       *)
(*   A: a mention in channel C1, not in a thread, by the allowed user      *)
(*   B: a reply in A's thread, by the allowed user                         *)
(*   C: a reply in A's thread, by a user who is not allowed                *)
(* Slack emits an "app_mention" event for each and a "message" event for   *)
(* the two thread replies (A's own "message" event is dropped by           *)
(* handle_message in every state: A is no DM and has no thread_ts).  Each  *)
(* event is delivered to handle_message at most once.  A run carries one   *)
(* of the Traffics.                                                        *)

Msgs == {"A", "B", "C"}

Channel(m) == <<"C", "1">>

Ts(m) == IF m = "A" THEN <<"1">> ELSE IF m = "B" THEN <<"2">> ELSE <<"3">>

ThreadTs(m) == IF m = "A" THEN None ELSE <<"1">>

User(m) == IF m = "C" THEN "U0INTRUDER" ELSE "U04R0EJACMR"

Key(m) == <<Channel(m), Ts(m)>>

Keys == {Key(m) : m \in Msgs}

MsgOf(k) == CHOOSE m \in Msgs : Key(m) = k

EventTypes == {"message", "app_mention"}

Events == {<<"A", "app_mention">>, <<"B", "message">>, <<"B", "app_mention">>,
           <<"C", "message">>, <<"C", "app_mention">>}

Traffics == {{"A", "B"}, {"A", "C"}}

\* SMS requests: S1 from a number on the allow-list, S2 from another number
Smss == {"S1", "S2"}

From(s) == IF s = "S1" THEN "+15550100" ELSE "+15550199"

Body(s) == "status?"

\* allowed_numbers of the SMS bridge's config: absent, or one number
AllowLists == {{}, {"+15550100"}}

\* The bridges, the process ids, the signals and the subprocess behaviours
Bridges == {"slack", "crm", "twilio"}

Pids == {4711, 4712}

Signals == {"SIGINT", "SIGTERM"}

ChildKinds == {"normal", "never_exits", "never_closes_stdout"}

NoFile == <<>>

\* Calls of run_claude_code and the users they are made for
MaxCalls == 2

Calls == 1..MaxCalls

UserKeys == {"u1", "u2"}

NoKey == "-"

NoOutcome == [kind |-> "none"]

NoReply == <<>>

----------------------------------------------------------------------------
(* Python dict, insertion ordered, as a sequence of <<key, value>> pairs *)

DictHas(d, k) == \E i \in 1..Len(d) : d[i][1] = k

DictGet(d, k) == d[CHOOSE i \in 1..Len(d) : d[i][1] = k][2]

\* mutant: the assignment adds an entry even when the key is present
DictSet_AlwaysAppends(d, k, v) == Append(d, <<k, v>>)

DictSet(d, k, v) ==
  IF DictHas(d, k)
  THEN [i \in 1..Len(d) |-> IF d[i][1] = k THEN <<k, v>> ELSE d[i]]
  ELSE Append(d, <<k, v>>)

DictPop(d, k) == SelectSeq(d, LAMBDA p : p[1] # k)

DictKeys(d) == {d[i][1] : i \in 1..Len(d)}

RECURSIVE DictFromPairs(_)
DictFromPairs(ps) ==
  IF ps = <<>> THEN <<>>
  ELSE DictSet(DictFromPairs(SubSeq(ps, 1, Len(ps) - 1)),
               ps[Len(ps)][1], ps[Len(ps)][2])

----------------------------------------------------------------------------
(* pending_work.json: keys "channel|ts" *)

JoinKey(k) == k[1] \o <<"|">> \o k[2]

RECURSIVE SplitBar(_)
SplitBar(s) ==
  IF \A i \in 1..Len(s) : s[i] # "|" THEN <<s>>
  ELSE LET j == CHOOSE i \in 1..Len(s) :
                  s[i] = "|" /\ \A h \in 1..(i - 1) : s[h] # "|"
       IN <<SubSeq(s, 1, j - 1)>> \o SplitBar(SubSeq(s, j + 1, Len(s)))

\* a save that leaves the file as it was
SavedFile_NotWritten(pw, hp) == file

\* save_pending_work: {f"{k[0]}|{k[1]}": v for k, v in PENDING_WORK.items()}
SavedFile(pw, hp) ==
  DictFromPairs([i \in 1..Len(pw) |-> <<JoinKey(pw[i][1]), hp[pw[i][2]]>>])

\* load_pending_work: {tuple(k.split("|")): v for k, v in data.items()};
\* the loaded values become objects 1..Len(f) of a new heap
LoadedWork(f) == DictFromPairs([i \in 1..Len(f) |-> <<SplitBar(f[i][1]), i>>])

LoadedHeap(f) == [i \in 1..Len(f) |-> f[i][2]]

----------------------------------------------------------------------------
(* Reactions on a message *)

add_reaction(r, k, emoji) ==
  IF k \in DOMAIN r THEN [r EXCEPT ![k] = @ \cup {emoji}] ELSE r

remove_reaction(r, k, emoji) ==
  IF k \in DOMAIN r THEN [r EXCEPT ![k] = @ \ {emoji}] ELSE r

Bump(f, k) == IF k \in DOMAIN f THEN [f EXCEPT ![k] = @ + 1] ELSE f

\* info.get("retry_count", 0)
RetryCount(info) == IF "retry_count" \in DOMAIN info THEN info.retry_count ELSE 0

----------------------------------------------------------------------------
(* State after run_bridge has started with no pending_work.json *)

SlackStarted ==
  /\ up = TRUE
  /\ starts = 0
  /\ PENDING_WORK = <<>>
  /\ heap = <<>>
  /\ file = <<>>
  /\ ACTIVE_THREADS = {}
  /\ USER_SESSIONS = {}
  /\ hpc = [e \in Events |-> "undelivered"]
  /\ hstart = [e \in Events |-> 0]
  /\ hthread = [e \in Events |-> None]
  /\ cpc = "wait"
  /\ stuck_items = <<>>
  /\ cstart = 0
  /\ wakeAt = 0
  /\ reactions = [k \in Keys |-> {}]
  /\ inbox = {}
  /\ relays = [k \in Keys |-> 0]
  /\ retries = [k \in Keys |-> 0]
  /\ replies = [k \in Keys |-> 0]
  /\ apologies = [k \in Keys |-> 0]
  /\ removals = [k \in Keys |-> 0]
  /\ goodPasses = 0
  /\ passOK = FALSE

\* The SMS webhook with no request received yet
SmsStarted ==
  /\ TW_USER_SESSIONS = {}
  /\ tpc = [s \in Smss |-> "undelivered"]
  /\ tstart = [s \in Smss |-> 0]
  /\ twInbox = {}
  /\ smsSent = [s \in Smss |-> 0]
  /\ twRelays = [s \in Smss |-> 0]

\* No SMS bridge is running
SmsOff ==
  /\ ALLOWED_NUMBERS = {}
  /\ TW_AUTO_RESPOND = FALSE
  /\ SmsStarted

\* No bridge process is followed through its life
LifeOff ==
  /\ bridge = "none"
  /\ pid = 0
  /\ lpc = "off"
  /\ pidFile = NoFile
  /\ handlers = FALSE
  /\ stop_event = FALSE
  /\ signalled = "none"
  /\ sigTime = 0
  /\ rpc = "idle"
  /\ rstart = 0
  /\ childKind = "normal"
  /\ childExited = FALSE
  /\ stdoutClosed = FALSE

\* run_claude_code has not been called
CallsOff ==
  /\ sessions = {}
  /\ okReturned = {}
  /\ callPc = [c \in Calls |-> "idle"]
  /\ callKey = [c \in Calls |-> NoKey]
  /\ callPrompt = [c \in Calls |-> "none"]
  /\ callCont = [c \in Calls |-> FALSE]
  /\ callOutcome = [c \in Calls |-> NoOutcome]
  /\ callReply = [c \in Calls |-> NoReply]
  /\ callSpawns = [c \in Calls |-> 0]
  /\ callFresh = [c \in Calls |-> FALSE]

OAuthOff ==
  /\ skill = "none"
  /\ tokenFiles = <<>>
  /\ savedAs = <<>>
  /\ calls = 0
  /\ cmd = "none"
  /\ account = <<>>
  /\ opc = "off"
  /\ auth_code = <<>>
  /\ auth_error = <<>>
  /\ requests = <<>>
  /\ flowStart = 0
  /\ waitStart = 0
  /\ flows = 0
  /\ exchanges = 0
  /\ refresh = <<>>
  /\ loaded = <<>>
  /\ exchanged = <<>>
  /\ before = <<>>
  /\ result = <<>>
  /\ returnedAt = 0
  /\ accounts_meta = <<>>
  /\ printed = "none"
  /\ beforeSaved = <<>>

\* run_bridge of the CRM bridge has not been called
PollOff ==
  /\ poll_interval = 0
  /\ consecutive_failures = 0
  /\ ppc = "off"
  /\ polls = 0
  /\ messages = <<>>
  /\ msgIdx = 0
  /\ effective_interval = 0
  /\ poll_stop_event = FALSE
  /\ pollLog = <<>>
  /\ pollCaught = 0

RestOff == CallsOff /\ OAuthOff /\ PollOff

Init ==
  /\ now = 0
  /\ AUTO_RESPOND \in BOOLEAN
  /\ traffic \in Traffics
  /\ SlackStarted
  /\ SmsOff
  /\ LifeOff
  /\ RestOff

----------------------------------------------------------------------------
(* Work tracker *)

NewInfo(m) ==
  [start_time |-> now, text |-> m, user_id |-> User(m),
   thread_ts |-> ThreadTs(m), channel |-> Channel(m)]

SetField(info, f, v) ==
  [x \in DOMAIN info \cup {f} |-> IF x = f THEN v ELSE info[x]]

\* mark_work_started: a new info object replaces whatever the key held
mark_work_started(m) ==
  /\ heap' = Append(heap, NewInfo(m))
  /\ PENDING_WORK' = DictSet(PENDING_WORK, Key(m), Len(heap) + 1)
  /\ file' = SavedFile(PENDING_WORK', heap')

\* mark_work_completed: PENDING_WORK.pop((channel, ts), None), then save;
\* the caller has fixed heap'
mark_work_completed(k) ==
  /\ PENDING_WORK' = DictPop(PENDING_WORK, k)
  /\ file' = SavedFile(PENDING_WORK', heap')
  /\ removals' = IF DictHas(PENDING_WORK, k) THEN Bump(removals, k) ELSE removals

\* subprocess.run(..., timeout=600): the relay started at s returns normally
\* before the timeout and is cut off at it
RelayOutcome(s) == IF now - s >= SLACK_RELAY_TIMEOUT THEN "timeout" ELSE "ok"

\* run_claude_code sets USER_SESSIONS[user_id] only on a normal return
SessionsAfter(outcome, user) ==
  IF outcome = "ok" THEN USER_SESSIONS \cup {user} ELSE USER_SESSIONS

\* send_slack_response tracks the thread it posted to
ThreadsAfterSend(thread) ==
  IF thread # None THEN ACTIVE_THREADS \cup {thread} ELSE ACTIVE_THREADS

\* ts of the bridge's own reply to message m
ResponseTs(m) == <<"r">> \o Ts(m)

\* Message texts: a request that mentions the bot, a bare acknowledgement
Text(m) == "<@BOT> please do it"

\* should_respond_to_thread_reply: FALSE only for a conversation-ending signal
should_respond_to_thread_reply(text) ==
  text \notin {"thanks", "thank you", "thx", "ty", "cool", "nice", "great", "got it",
               "perfect", "awesome", "ok thanks", "okay thanks"}

\* text.split(">", 1)[-1].strip() if ">" in text else text
CleanText(text) == IF text = "<@BOT> please do it" THEN "please do it"
                   ELSE IF text = "<@BOT>" THEN "" ELSE text

is_dm(m) == Head(Channel(m)) = "D"

is_tracked_thread_reply(m) == ThreadTs(m) # None /\ ThreadTs(m) \in ACTIVE_THREADS

\* mutant: the allow-list is not consulted
Allowed_Everyone(user) == TRUE

Allowed(user) == ~(ALLOWED_USERS # {} /\ user \notin ALLOWED_USERS)

----------------------------------------------------------------------------
(* handle_message, event_type == "message": up to the start of the relay *)

HandleMessageEvent(m) ==
  LET e == <<m, "message">>
      k == Key(m)
      ignored == ~is_dm(m) /\ ~is_tracked_thread_reply(m)
      rejected == ~Allowed(User(m))
      ackOnly == is_tracked_thread_reply(m) /\ ~should_respond_to_thread_reply(Text(m))
      tracked == ~ignored /\ ~rejected /\ AUTO_RESPOND /\ ~ackOnly
  IN /\ up
     /\ m \in traffic
     /\ e \in Events
     /\ hpc[e] = "undelivered"
     /\ inbox' = IF ignored THEN inbox ELSE inbox \cup {e}
     /\ IF tracked
        THEN /\ reactions' = add_reaction(reactions, k, EMOJI_WORKING)
             /\ mark_work_started(m)
             /\ relays' = Bump(relays, k)
             /\ hpc' = [hpc EXCEPT ![e] = "relay"]
             /\ hstart' = [hstart EXCEPT ![e] = now]
             /\ hthread' = [hthread EXCEPT ![e] =
                              IF is_tracked_thread_reply(m) THEN ThreadTs(m) ELSE None]
        ELSE /\ reactions' = IF ~ignored /\ ~rejected /\ AUTO_RESPOND /\ ackOnly
                             THEN add_reaction(reactions, k, EMOJI_ACK)
                             ELSE reactions
             /\ hpc' = [hpc EXCEPT ![e] = "done"]
             /\ UNCHANGED <<heap, PENDING_WORK, file, relays, hstart, hthread>>
     /\ UNCHANGED <<now, up, starts, AUTO_RESPOND, traffic, ACTIVE_THREADS, USER_SESSIONS, cpc,
                    stuck_items, cstart, wakeAt, retries, replies, apologies, removals,
                    goodPasses, passOK>>
     /\ UNCHANGED <<smsVars, lifeVars, restVars>>

(* handle_message, event_type == "app_mention": up to the start of the relay *)

HandleAppMention(m) ==
  LET e == <<m, "app_mention">>
      k == Key(m)
      rejected == ~Allowed(User(m))
      tracked == ~rejected /\ AUTO_RESPOND /\ CleanText(Text(m)) # ""
  IN /\ up
     /\ m \in traffic
     /\ e \in Events
     /\ hpc[e] = "undelivered"
     /\ inbox' = inbox \cup {e}
     /\ IF tracked
        THEN /\ reactions' = add_reaction(reactions, k, EMOJI_WORKING)
             /\ mark_work_started(m)
             /\ relays' = Bump(relays, k)
             /\ hpc' = [hpc EXCEPT ![e] = "relay"]
             /\ hstart' = [hstart EXCEPT ![e] = now]
             /\ hthread' = [hthread EXCEPT ![e] =
                              IF ThreadTs(m) # None THEN ThreadTs(m) ELSE Ts(m)]
        ELSE /\ reactions' = IF rejected
                             THEN add_reaction(reactions, k, EMOJI_NO_ENTRY)
                             ELSE reactions
             /\ hpc' = [hpc EXCEPT ![e] = "done"]
             /\ UNCHANGED <<heap, PENDING_WORK, file, relays, hstart, hthread>>
     /\ UNCHANGED <<now, up, starts, AUTO_RESPOND, traffic, ACTIVE_THREADS, USER_SESSIONS, cpc,
                    stuck_items, cstart, wakeAt, retries, replies, apologies, removals,
                    goodPasses, passOK>>
     /\ UNCHANGED <<smsVars, lifeVars, restVars>>

(* handle_message from the return of run_claude_with_progress: post the    *)
(* response, swap the markers, mark the work completed, track the thread   *)

HandlerReturn(e) ==
  LET m == e[1]
      k == Key(m)
      outcome == RelayOutcome(hstart[e])
      sent == ThreadsAfterSend(hthread[e])
  IN /\ up
     /\ hpc[e] = "relay"
     /\ USER_SESSIONS' = SessionsAfter(outcome, User(m))
     /\ replies' = Bump(replies, k)
     /\ reactions' = add_reaction(remove_reaction(reactions, k, EMOJI_WORKING),
                                  k, EMOJI_DONE)
     /\ heap' = heap
     /\ mark_work_completed(k)
     /\ ACTIVE_THREADS' =
          IF e[2] = "message"
          THEN (IF hthread[e] = None THEN sent \cup {ResponseTs(m)} ELSE sent)
          ELSE sent \cup {IF ThreadTs(m) # None THEN ThreadTs(m) ELSE Ts(m)}
     /\ hpc' = [hpc EXCEPT ![e] = "done"]
     /\ hstart' = [hstart EXCEPT ![e] = 0]
     /\ hthread' = [hthread EXCEPT ![e] = None]
     /\ goodPasses' = IF outcome = "ok" THEN 0 ELSE goodPasses
     /\ passOK' = (passOK /\ outcome # "ok")
     /\ UNCHANGED <<now, up, starts, AUTO_RESPOND, traffic, cpc, stuck_items,
                    cstart, wakeAt, inbox, relays, retries, apologies>>
     /\ UNCHANGED <<smsVars, lifeVars, restVars>>

----------------------------------------------------------------------------
(* cleanup_stuck_work, run by run_cleanup_loop on the cleanup thread *)

IsStuck(info) == now - info.start_time > WORK_TIMEOUT

\* the snapshot: list(PENDING_WORK.items()) filtered by elapsed > WORK_TIMEOUT
CleanupWake ==
  /\ up
  /\ cpc = "wait"
  /\ now >= wakeAt
  /\ stuck_items' = SelectSeq(PENDING_WORK, LAMBDA p : IsStuck(heap[p[2]]))
  /\ cpc' = "loop"
  /\ passOK' = (Len(stuck_items') = Len(PENDING_WORK))
  /\ UNCHANGED <<now, up, starts, AUTO_RESPOND, traffic, PENDING_WORK, heap, file, ACTIVE_THREADS,
                 USER_SESSIONS, hpc, hstart, hthread, cstart, wakeAt, reactions, inbox,
                 relays, retries, replies, apologies, removals, goodPasses>>
  /\ UNCHANGED <<smsVars, lifeVars, restVars>>

\* a retry that stores its info dict under the key again
CleanupRetry_Reinserts ==
  /\ up
  /\ cpc = "loop"
  /\ stuck_items # <<>>
  /\ LET k == Head(stuck_items)[1]
         obj == Head(stuck_items)[2]
     IN /\ RetryCount(heap[obj]) = 0
        /\ heap' = [heap EXCEPT ![obj] =
                      SetField(SetField(@, "retry_count", 1), "start_time", now)]
        /\ PENDING_WORK' = DictSet(PENDING_WORK, k, obj)
        /\ file' = SavedFile(PENDING_WORK', heap')
        /\ reactions' = add_reaction(reactions, k, EMOJI_RETRY)
        /\ retries' = Bump(retries, k)
  /\ cpc' = "retry"
  /\ cstart' = now
  /\ UNCHANGED <<now, up, starts, AUTO_RESPOND, traffic, ACTIVE_THREADS,
                 USER_SESSIONS, hpc, hstart, hthread, stuck_items, wakeAt, inbox, relays,
                 replies, apologies, removals, goodPasses, passOK>>
  /\ UNCHANGED <<smsVars, lifeVars, restVars>>

\* retry_count == 0: count the retry, reset the timer, save, mark, start the relay
CleanupRetry ==
  /\ up
  /\ cpc = "loop"
  /\ stuck_items # <<>>
  /\ LET k == Head(stuck_items)[1]
         obj == Head(stuck_items)[2]
     IN /\ RetryCount(heap[obj]) = 0
        /\ heap' = [heap EXCEPT ![obj] =
                      SetField(SetField(@, "retry_count", 1), "start_time", now)]
        /\ file' = SavedFile(PENDING_WORK, heap')
        /\ reactions' = add_reaction(reactions, k, EMOJI_RETRY)
        /\ retries' = Bump(retries, k)
  /\ cpc' = "retry"
  /\ cstart' = now
  /\ UNCHANGED <<now, up, starts, AUTO_RESPOND, traffic, PENDING_WORK, ACTIVE_THREADS,
                 USER_SESSIONS, hpc, hstart, hthread, stuck_items, wakeAt, inbox, relays,
                 replies, apologies, removals, goodPasses, passOK>>
  /\ UNCHANGED <<smsVars, lifeVars, restVars>>

\* mutant: the retry marker is left on the message
CleanupRetryReturn_KeepsRetryMarker ==
  /\ up
  /\ cpc = "retry"
  /\ LET k == Head(stuck_items)[1]
         info == heap[Head(stuck_items)[2]]
         outcome == RelayOutcome(cstart)
         thread == IF info.thread_ts # None THEN info.thread_ts ELSE k[2]
     IN /\ USER_SESSIONS' = SessionsAfter(outcome, info.user_id)
        /\ replies' = Bump(replies, k)
        /\ ACTIVE_THREADS' = ThreadsAfterSend(thread)
        /\ reactions' = add_reaction(remove_reaction(reactions, k, EMOJI_WORKING),
                                     k, EMOJI_DONE)
        /\ heap' = heap
        /\ mark_work_completed(k)
        /\ goodPasses' = IF outcome = "ok" THEN 0 ELSE goodPasses
        /\ passOK' = (passOK /\ outcome # "ok")
  /\ stuck_items' = Tail(stuck_items)
  /\ cpc' = "loop"
  /\ cstart' = 0
  /\ UNCHANGED <<now, up, starts, AUTO_RESPOND, traffic, hpc, hstart, hthread, wakeAt,
                 inbox, relays, retries, apologies>>
  /\ UNCHANGED <<smsVars, lifeVars, restVars>>

\* the retry relay returns: post the response, swap the markers, mark completed
CleanupRetryReturn ==
  /\ up
  /\ cpc = "retry"
  /\ LET k == Head(stuck_items)[1]
         info == heap[Head(stuck_items)[2]]
         outcome == RelayOutcome(cstart)
         thread == IF info.thread_ts # None THEN info.thread_ts ELSE k[2]
     IN /\ USER_SESSIONS' = SessionsAfter(outcome, info.user_id)
        /\ replies' = Bump(replies, k)
        /\ ACTIVE_THREADS' = ThreadsAfterSend(thread)
        /\ reactions' = add_reaction(
                          remove_reaction(
                            remove_reaction(reactions, k, EMOJI_WORKING),
                            k, EMOJI_RETRY),
                          k, EMOJI_DONE)
        /\ heap' = heap
        /\ mark_work_completed(k)
        /\ goodPasses' = IF outcome = "ok" THEN 0 ELSE goodPasses
        /\ passOK' = (passOK /\ outcome # "ok")
  /\ stuck_items' = Tail(stuck_items)
  /\ cpc' = "loop"
  /\ cstart' = 0
  /\ UNCHANGED <<now, up, starts, AUTO_RESPOND, traffic, hpc, hstart, hthread, wakeAt,
                 inbox, relays, retries, apologies>>
  /\ UNCHANGED <<smsVars, lifeVars, restVars>>

\* mutant: the item given up is not marked completed
CleanupGiveUp_KeepsItem ==
  /\ up
  /\ cpc = "loop"
  /\ stuck_items # <<>>
  /\ LET k == Head(stuck_items)[1]
         obj == Head(stuck_items)[2]
     IN /\ RetryCount(heap[obj]) # 0
        /\ reactions' = add_reaction(
                          remove_reaction(
                            remove_reaction(reactions, k, EMOJI_WORKING),
                            k, EMOJI_RETRY),
                          k, EMOJI_ERROR)
        /\ apologies' = Bump(apologies, k)
  /\ stuck_items' = Tail(stuck_items)
  /\ UNCHANGED <<now, up, starts, AUTO_RESPOND, traffic, PENDING_WORK, heap, file,
                 ACTIVE_THREADS, USER_SESSIONS, hpc, hstart, hthread, cpc, cstart,
                 wakeAt, inbox, relays, retries, replies, removals, goodPasses, passOK>>
  /\ UNCHANGED <<smsVars, lifeVars, restVars>>

\* retry_count != 0: give up, error marker, mark completed, apologise in the thread
CleanupGiveUp ==
  /\ up
  /\ cpc = "loop"
  /\ stuck_items # <<>>
  /\ LET k == Head(stuck_items)[1]
         obj == Head(stuck_items)[2]
     IN /\ RetryCount(heap[obj]) # 0
        /\ reactions' = add_reaction(
                          remove_reaction(
                            remove_reaction(reactions, k, EMOJI_WORKING),
                            k, EMOJI_RETRY),
                          k, EMOJI_ERROR)
        /\ heap' = heap
        /\ mark_work_completed(k)
        /\ apologies' = Bump(apologies, k)
  /\ stuck_items' = Tail(stuck_items)
  /\ UNCHANGED <<now, up, starts, AUTO_RESPOND, traffic, ACTIVE_THREADS, USER_SESSIONS, hpc,
                 hstart, hthread, cpc, cstart, wakeAt, inbox, relays, retries, replies,
                 goodPasses, passOK>>
  /\ UNCHANGED <<smsVars, lifeVars, restVars>>

\* the pass is over: run_cleanup_loop waits CLEANUP_INTERVAL
CleanupSleep ==
  /\ up
  /\ cpc = "loop"
  /\ stuck_items = <<>>
  /\ cpc' = "wait"
  /\ wakeAt' = now + CLEANUP_INTERVAL
  /\ goodPasses' = IF passOK THEN (IF goodPasses < 2 THEN goodPasses + 1 ELSE 2) ELSE 0
  /\ passOK' = FALSE
  /\ UNCHANGED <<now, up, starts, AUTO_RESPOND, traffic, PENDING_WORK, heap, file, ACTIVE_THREADS,
                 USER_SESSIONS, hpc, hstart, hthread, stuck_items, cstart, reactions,
                 inbox, relays, retries, replies, apologies, removals>>
  /\ UNCHANGED <<smsVars, lifeVars, restVars>>

----------------------------------------------------------------------------
(* The process dies (kill, crash, or exit after the stop flag) and         *)
(* run_bridge is started again: only pending_work.json and Slack survive   *)

Kill ==
  /\ up
  /\ starts < MaxStarts
  /\ up' = FALSE
  /\ PENDING_WORK' = <<>>
  /\ heap' = <<>>
  /\ ACTIVE_THREADS' = {}
  /\ USER_SESSIONS' = {}
  /\ hpc' = [e \in Events |-> IF hpc[e] = "relay" THEN "done" ELSE hpc[e]]
  /\ hstart' = [e \in Events |-> 0]
  /\ hthread' = [e \in Events |-> None]
  /\ cpc' = "down"
  /\ stuck_items' = <<>>
  /\ cstart' = 0
  /\ wakeAt' = 0
  /\ goodPasses' = 0
  /\ passOK' = FALSE
  /\ UNCHANGED <<now, starts, AUTO_RESPOND, traffic, file,
                 reactions, inbox, relays, retries, replies, apologies, removals>>
  /\ UNCHANGED <<smsVars, lifeVars, restVars>>

\* run_bridge: load_pending_work, then the cleanup thread's first pass at once
Start ==
  /\ ~up
  /\ up' = TRUE
  /\ starts' = starts + 1
  /\ PENDING_WORK' = LoadedWork(file)
  /\ heap' = LoadedHeap(file)
  /\ cpc' = "wait"
  /\ wakeAt' = now
  /\ UNCHANGED <<now, AUTO_RESPOND, traffic, file, ACTIVE_THREADS, USER_SESSIONS, hpc, hstart,
                 hthread, stuck_items, cstart, reactions, inbox, relays, retries,
                 replies, apologies, removals, goodPasses, passOK>>
  /\ UNCHANGED <<smsVars, lifeVars, restVars>>

----------------------------------------------------------------------------
(* Time passes, unless a thread is due: a relay at its timeout, the        *)
(* cleanup thread at the end of its wait or in the middle of a pass        *)

TimePasses ==
  /\ now + Tick <= MaxTime
  /\ \A e \in Events : hpc[e] = "relay" => now - hstart[e] < SLACK_RELAY_TIMEOUT
  /\ cpc = "retry" => now - cstart < SLACK_RELAY_TIMEOUT
  /\ cpc = "wait" => now < wakeAt
  /\ cpc # "loop"
  /\ \A s \in Smss : tpc[s] = "relay" => now - tstart[s] < TWILIO_RELAY_TIMEOUT
  /\ now' = now + Tick
  /\ UNCHANGED <<up, starts, AUTO_RESPOND, traffic, PENDING_WORK, heap, file, ACTIVE_THREADS,
                 USER_SESSIONS, hpc, hstart, hthread, cpc, stuck_items, cstart, wakeAt,
                 reactions, inbox, relays, retries, replies, apologies, removals,
                 goodPasses, passOK>>
  /\ UNCHANGED <<smsVars, lifeVars, restVars>>

Next ==
  \/ \E m \in Msgs : HandleMessageEvent(m)
  \/ \E m \in Msgs : HandleAppMention(m)
  \/ \E e \in Events : HandlerReturn(e)
  \/ CleanupWake
  \/ CleanupRetry
  \/ CleanupRetryReturn
  \/ CleanupGiveUp
  \/ CleanupSleep
  \/ Kill
  \/ Start
  \/ TimePasses

Spec == Init /\ [][Next]_vars

----------------------------------------------------------------------------
(* Properties of the work tracker *)

HandlerInFlight(k) == \E e \in Events : hpc[e] = "relay" /\ Key(e[1]) = k

RetryInFlight(k) == cpc = "retry" /\ Head(stuck_items)[1] = k

Notifications(k) == replies[k] + apologies[k]

\* C1: over any run each (channel, ts) item gets at most one retry relay from
\* the cleanup pass (once retried, it is given up on a later pass, never retried
\* again)
C1_AtMostOneRetryPerItem == \A k \in Keys : retries[k] <= 1

\* C2: every item taken out of PENDING_WORK comes with exactly one terminal
\* notification (a reply with the relay result, or a failure apology).  Stated at
\* rest (no relay for the item in flight) and for the items that reached one push
\* handler only, so that a violation does not rest on a duplicate delivery
C2_ExactlyOneNotification ==
  \A k \in Keys :
    (relays[k] <= 1 /\ ~HandlerInFlight(k) /\ ~RetryInFlight(k))
      => Notifications(k) = removals[k]

\* C3: after two cleanup passes in a row that found every tracked item older than
\* WORK_TIMEOUT, with no relay returning a result in between, no item with
\* retry_count >= 1 is left in PENDING_WORK
C3_NoRetriedItemAfterTwoPasses ==
  (up /\ cpc = "wait" /\ goodPasses = 2)
    => \A i \in 1..Len(PENDING_WORK) : RetryCount(heap[PENDING_WORK[i][2]]) = 0

\* two such passes have run, one of them gave an item up, and no relay ever
\* returned a result
C3_Witness ==
  /\ up /\ cpc = "wait" /\ goodPasses = 2
  /\ \E k \in Keys : apologies[k] = 1
  /\ \A k \in Keys : replies[k] = 0

\* C4: however often the event of one message (channel, ts) is delivered, the
\* push handler starts the relay at most once for it
C4_RelayAtMostOnce == \A k \in Keys : relays[k] <= 1

UniqueKeys(d) == \A i, j \in 1..Len(d) : d[i][1] = d[j][1] => i = j

\* C5: PENDING_WORK holds at most one entry per (channel, ts), and
\* pending_work.json at most one entry per key string and per (channel, ts) it
\* loads to
C5_OneEntryPerKey ==
  /\ UniqueKeys(PENDING_WORK)
  /\ UniqueKeys(file)
  /\ \A i, j \in 1..Len(file) : SplitBar(file[i][1]) = SplitBar(file[j][1]) => i = j

\* after a restart, the loaded map holds the one entry of a message that two
\* handlers had both marked as started
C5_Witness ==
  \E k \in Keys :
    /\ relays[k] = 2
    /\ starts = 1 /\ up
    /\ DictHas(PENDING_WORK, k)
    /\ Len(PENDING_WORK) = 2

\* C6: while the cleanup pass retries an item, the item has retry_count = 1, its
\* start_time is the time the retry began and the message carries the retry
\* marker; when the retry relay returns, the message carries the done marker,
\* neither the working nor the retry marker, and the item is not in PENDING_WORK
C6_RetryThenDone ==
  /\ [](cpc = "retry" =>
         LET k == Head(stuck_items)[1]
             info == heap[Head(stuck_items)[2]]
         IN /\ RetryCount(info) = 1
            /\ info.start_time = cstart
            /\ EMOJI_RETRY \in reactions[k])
  /\ [][(cpc = "retry" /\ cpc' = "loop") =>
          LET k == Head(stuck_items)[1]
          IN /\ EMOJI_DONE \in reactions'[k]
             /\ EMOJI_WORKING \notin reactions'[k]
             /\ EMOJI_RETRY \notin reactions'[k]
             /\ ~DictHas(PENDING_WORK', k)]_vars

\* the retry of an item has returned while the item's original relay, started
\* more than WORK_TIMEOUT ago, is still running
C6_Witness ==
  \E e \in Events :
    LET k == Key(e[1])
    IN /\ hpc[e] = "relay" /\ now - hstart[e] > WORK_TIMEOUT
       /\ retries[k] = 1 /\ relays[k] = 1 /\ replies[k] = 1
       /\ cpc = "loop"
       /\ EMOJI_DONE \in reactions[k]
       /\ ~DictHas(PENDING_WORK, k)

----------------------------------------------------------------------------
(* The Twilio SMS bridge: handle_sms and the responder thread it starts.   *)
(* send_sms is taken to succeed.                                           *)

SmsAllowed(number) == ~(ALLOWED_NUMBERS # {} /\ number \notin ALLOWED_NUMBERS)

\* subprocess.run(..., timeout=300) of twilio_bridge.run_claude_code
SmsRelayOutcome(s) == IF now - s >= TWILIO_RELAY_TIMEOUT THEN "timeout" ELSE "ok"

\* run_claude_with_progress: one "Still working..." per minute waited, three at most
ProgressUpdates(elapsed) == IF elapsed \div 60 > 3 THEN 3 ELSE elapsed \div 60

\* handle_sms: log to the inbox, check the allow-list, start the responder
\* thread, which sends "Working on it..." and enters the relay
handle_sms(s) ==
  LET rejected == ~SmsAllowed(From(s))
      responding == ~rejected /\ TW_AUTO_RESPOND /\ Body(s) # ""
  IN /\ tpc[s] = "undelivered"
     /\ twInbox' = twInbox \cup {<<s, "sms">>}
     /\ IF responding
        THEN /\ smsSent' = Bump(smsSent, s)
             /\ twRelays' = Bump(twRelays, s)
             /\ tpc' = [tpc EXCEPT ![s] = "relay"]
             /\ tstart' = [tstart EXCEPT ![s] = now]
        ELSE /\ tpc' = [tpc EXCEPT ![s] = "done"]
             /\ UNCHANGED <<smsSent, twRelays, tstart>>
     /\ UNCHANGED <<ALLOWED_NUMBERS, TW_AUTO_RESPOND, TW_USER_SESSIONS>>
     /\ UNCHANGED <<now, slackVars, lifeVars, restVars>>

\* process_and_respond from the return of the relay: the progress updates
\* sent meanwhile, the response SMS, the "sms_sent" inbox entry
process_and_respond(s) ==
  LET outcome == SmsRelayOutcome(tstart[s])
  IN /\ tpc[s] = "relay"
     /\ TW_USER_SESSIONS' = IF outcome = "ok" THEN TW_USER_SESSIONS \cup {From(s)}
                                              ELSE TW_USER_SESSIONS
     /\ smsSent' = [smsSent EXCEPT ![s] = @ + ProgressUpdates(now - tstart[s]) + 1]
     /\ twInbox' = twInbox \cup {<<s, "sms_sent">>}
     /\ tpc' = [tpc EXCEPT ![s] = "done"]
     /\ tstart' = [tstart EXCEPT ![s] = 0]
     /\ UNCHANGED <<ALLOWED_NUMBERS, TW_AUTO_RESPOND, twRelays>>
     /\ UNCHANGED <<now, slackVars, lifeVars, restVars>>

(* The Slack bridge and the SMS bridge side by side, each receiving        *)
(* messages from a sender on its allow-list and from one who is not        *)

InitAllow ==
  /\ now = 0
  /\ AUTO_RESPOND \in BOOLEAN
  /\ traffic = {"A", "C"}
  /\ SlackStarted
  /\ ALLOWED_NUMBERS \in AllowLists
  /\ TW_AUTO_RESPOND \in BOOLEAN
  /\ SmsStarted
  /\ LifeOff
  /\ RestOff

NextAllow ==
  \/ Next
  \/ \E s \in Smss : handle_sms(s)
  \/ \E s \in Smss : process_and_respond(s)

SpecAllow == InitAllow /\ [][NextAllow]_vars

----------------------------------------------------------------------------
(* Properties of the allow-list checks *)

\* The messages whose sender is not on a non-empty allow-list
Disallowed == {m \in Msgs : ALLOWED_USERS # {} /\ User(m) \notin ALLOWED_USERS}

SmsDisallowed == {s \in Smss : ALLOWED_NUMBERS # {} /\ From(s) \notin ALLOWED_NUMBERS}

\* No relay, no reply and no apology for a message of a disallowed sender
NoRelayNoReply ==
  /\ \A m \in Disallowed :
       /\ relays[Key(m)] = 0 /\ retries[Key(m)] = 0
       /\ replies[Key(m)] = 0 /\ apologies[Key(m)] = 0
       /\ ~DictHas(PENDING_WORK, Key(m))
  /\ \A s \in SmsDisallowed :
       /\ twRelays[s] = 0 /\ smsSent[s] = 0
       /\ tpc[s] # "relay" /\ <<s, "sms_sent">> \notin twInbox

\* C9 as stated: for a sender who is not on a non-empty allow-list the Slack
\* and Twilio bridges start no relay, post no reply and add no reaction or
\* other acknowledgement to the message.
C9_NoOutboundActionForDisallowed ==
  /\ NoRelayNoReply
  /\ \A m \in Disallowed : reactions[Key(m)] = {}

\* C9 as the code has it: no relay and no reply for a disallowed sender; the
\* SMS bridge and the Slack message-event path add nothing to the message,
\* and the Slack app_mention path adds exactly a no_entry reaction to it.
\* Every handled SMS and app_mention is in the inbox log.
C9_DisallowedRejectedWithNoEntryOnMention ==
  /\ NoRelayNoReply
  /\ \A m \in Disallowed :
       /\ reactions[Key(m)] =
            IF hpc[<<m, "app_mention">>] = "done" THEN {EMOJI_NO_ENTRY} ELSE {}
       /\ hpc[<<m, "app_mention">>] = "done" => <<m, "app_mention">> \in inbox
  /\ \A s \in SmsDisallowed : tpc[s] = "done" => <<s, "sms">> \in twInbox

\* Both bridges respond automatically and have answered an allowed sender;
\* the disallowed sender's Slack message event (in a tracked thread), Slack
\* mention and SMS have all been handled.
C9_Witness ==
  /\ AUTO_RESPOND /\ replies[Key("A")] >= 1
  /\ hpc[<<"C", "message">>] = "done" /\ <<"C", "message">> \in inbox
  /\ hpc[<<"C", "app_mention">>] = "done"
  /\ TW_AUTO_RESPOND /\ ALLOWED_NUMBERS # {}
  /\ tpc["S1"] = "done" /\ smsSent["S1"] >= 2
  /\ tpc["S2"] = "done"

----------------------------------------------------------------------------
(* One bridge process from run_bridge to its end: the PID file, the signal *)
(* handlers, the stop flag, one relayed message and its claude subprocess. *)
(* The startup steps and the relay take time; a step of the main loop does *)
(* not.  A subprocess of kind "normal" exits at some time and its pipes    *)
(* close with it; one of kind "never_exits" keeps running (it may close    *)
(* its stdout); one of kind "never_closes_stdout" may exit, but a process  *)
(* it has started keeps the pipe open.  stderr closes with stdout.         *)

RelayTimeout(b) ==
  IF b = "slack" THEN SLACK_RELAY_TIMEOUT
  ELSE IF b = "twilio" THEN TWILIO_RELAY_TIMEOUT
  ELSE CRM_RELAY_TIMEOUT

Alive == lpc \in {"boot", "pid_written", "serving", "relaying"}

Terminated == lpc \in {"exited", "killed"}

\* the subprocess has exited and its output has reached end of file
ChildDone == childExited /\ stdoutClosed

InitLife ==
  /\ now = 0
  /\ AUTO_RESPOND = FALSE
  /\ traffic = {}
  /\ SlackStarted
  /\ SmsOff
  /\ RestOff
  /\ bridge \in Bridges
  /\ pid \in Pids
  /\ lpc = "boot"
  /\ pidFile = NoFile
  /\ handlers = FALSE
  /\ stop_event = FALSE
  /\ signalled = "none"
  /\ sigTime = 0
  /\ rpc = "idle"
  /\ rstart = 0
  /\ childKind \in ChildKinds
  /\ childExited = FALSE
  /\ stdoutClosed = FALSE

\* run_bridge: with open(PID_FILE, "w") as f: f.write(str(os.getpid()))
WritePid ==
  /\ lpc = "boot"
  /\ pidFile' = <<pid>>
  /\ lpc' = "pid_written"
  /\ UNCHANGED <<bridge, pid, handlers, stop_event, signalled, sigTime, rpc, rstart,
                 childKind, childExited, stdoutClosed>>
  /\ UNCHANGED <<now, slackVars, smsVars, restVars>>

\* Slack (after socket_client.connect()) and CRM: signal.signal(SIGINT / SIGTERM,
\* signal_handler), then the main loop
InstallSignalHandlers ==
  /\ bridge \in {"slack", "crm"}
  /\ lpc = "pid_written"
  /\ handlers' = TRUE
  /\ lpc' = "serving"
  /\ UNCHANGED <<bridge, pid, pidFile, stop_event, signalled, sigTime, rpc, rstart,
                 childKind, childExited, stdoutClosed>>
  /\ UNCHANGED <<now, slackVars, smsVars, restVars>>

\* Twilio: no handler is installed; the try block around app.run is entered
AppRun ==
  /\ bridge = "twilio"
  /\ lpc = "pid_written"
  /\ lpc' = "serving"
  /\ UNCHANGED <<bridge, pid, pidFile, handlers, stop_event, signalled, sigTime, rpc,
                 rstart, childKind, childExited, stdoutClosed>>
  /\ UNCHANGED <<now, slackVars, smsVars, restVars>>

\* A signal is delivered after the PID file has been written.  With the
\* handler installed it sets the stop flag.  Without one, SIGTERM ends the
\* process at once and SIGINT raises KeyboardInterrupt in the main thread,
\* which only the try block around app.run catches (finally: unlink).
Signal(sig) ==
  LET caught == ~handlers /\ sig = "SIGINT" /\ bridge = "twilio" /\ lpc = "serving"
  IN /\ lpc \in {"pid_written", "serving", "relaying"}
     /\ signalled = "none"
     /\ signalled' = sig
     /\ sigTime' = now
     /\ stop_event' = (stop_event \/ handlers)
     /\ lpc' = IF handlers THEN lpc ELSE IF caught THEN "exited" ELSE "killed"
     /\ pidFile' = IF caught THEN NoFile ELSE pidFile
     /\ rpc' = IF ~handlers /\ rpc = "running" THEN "abandoned" ELSE rpc
     /\ UNCHANGED <<bridge, pid, handlers, rstart, childKind, childExited, stdoutClosed>>
     /\ UNCHANGED <<now, slackVars, smsVars, restVars>>

\* A message is taken up and run_claude_code spawns the subprocess: on a
\* handler thread (Slack, Twilio) or on the main thread inside the poll loop,
\* entered only while the stop flag is clear (CRM)
RelayStart ==
  /\ lpc = "serving"
  /\ rpc = "idle"
  /\ bridge = "crm" => ~stop_event
  /\ rpc' = "running"
  /\ rstart' = now
  /\ lpc' = IF bridge = "crm" THEN "relaying" ELSE lpc
  /\ UNCHANGED <<bridge, pid, pidFile, handlers, stop_event, signalled, sigTime,
                 childKind, childExited, stdoutClosed>>
  /\ UNCHANGED <<now, slackVars, smsVars, restVars>>

ChildExits ==
  /\ rpc = "running"
  /\ ~childExited
  /\ childKind # "never_exits"
  /\ childExited' = TRUE
  /\ stdoutClosed' = (stdoutClosed \/ childKind = "normal")
  /\ UNCHANGED <<bridge, pid, lpc, pidFile, handlers, stop_event, signalled, sigTime,
                 rpc, rstart, childKind>>
  /\ UNCHANGED <<now, slackVars, smsVars, restVars>>

ChildClosesStdout ==
  /\ rpc = "running"
  /\ ~stdoutClosed
  /\ childKind = "never_exits"
  /\ stdoutClosed' = TRUE
  /\ UNCHANGED <<bridge, pid, lpc, pidFile, handlers, stop_event, signalled, sigTime,
                 rpc, rstart, childKind, childExited>>
  /\ UNCHANGED <<now, slackVars, smsVars, restVars>>

\* Slack, Twilio: subprocess.run(cmd, capture_output=True, timeout=...) returns
\* when the subprocess is done, or kills it and raises TimeoutExpired at the timeout
SubprocessRunReturns ==
  /\ bridge \in {"slack", "twilio"}
  /\ rpc = "running"
  /\ ChildDone \/ now - rstart >= RelayTimeout(bridge)
  /\ rpc' = "returned"
  /\ UNCHANGED <<bridge, pid, lpc, pidFile, handlers, stop_event, signalled, sigTime,
                 rstart, childKind, childExited, stdoutClosed>>
  /\ UNCHANGED <<now, slackVars, smsVars, restVars>>

\* CRM: the loop around process.stdout.readline() ends when readline returns ""
\* and poll() is not None; process.communicate(timeout=300) follows it and
\* returns at once; process_message posts the response and the poll loop goes on
ReadlineLoopReturns ==
  /\ bridge = "crm"
  /\ lpc = "relaying"
  /\ rpc = "running"
  /\ ChildDone
  /\ rpc' = "returned"
  /\ lpc' = "serving"
  /\ UNCHANGED <<bridge, pid, pidFile, handlers, stop_event, signalled, sigTime,
                 rstart, childKind, childExited, stdoutClosed>>
  /\ UNCHANGED <<now, slackVars, smsVars, restVars>>

\* Slack, CRM: the main loop sees the stop flag; PID_FILE.unlink(); the Slack
\* process ends once the handler thread's relay is over
MainLoopExit ==
  /\ lpc = "serving"
  /\ stop_event
  /\ bridge = "slack" => rpc # "running"
  /\ pidFile' = NoFile
  /\ lpc' = "exited"
  /\ UNCHANGED <<bridge, pid, handlers, stop_event, signalled, sigTime, rpc, rstart,
                 childKind, childExited, stdoutClosed>>
  /\ UNCHANGED <<now, slackVars, smsVars, restVars>>

\* Time passes while the process lives, unless a step is due: the exit from
\* the main loop, the return of a finished relay, a relay at its timeout
ClockTick ==
  /\ Alive
  /\ now + Tick <= MaxTime
  /\ ~(lpc = "serving" /\ stop_event /\ (bridge = "slack" => rpc # "running"))
  /\ ~(rpc = "running" /\ ChildDone)
  /\ ~(bridge \in {"slack", "twilio"} /\ rpc = "running"
        /\ now - rstart >= RelayTimeout(bridge))
  /\ now' = now + Tick
  /\ UNCHANGED <<slackVars, smsVars, lifeVars, restVars>>

NextLife ==
  \/ WritePid
  \/ InstallSignalHandlers
  \/ AppRun
  \/ \E sig \in Signals : Signal(sig)
  \/ RelayStart
  \/ ChildExits
  \/ ChildClosesStdout
  \/ SubprocessRunReturns
  \/ ReadlineLoopReturns
  \/ MainLoopExit
  \/ ClockTick

SpecLife == InitLife /\ [][NextLife]_vars

----------------------------------------------------------------------------
(* Properties of the process life and of the relay *)

\* C7: run_bridge writes its own process id to the PID file at startup, and
\* after a SIGINT or SIGTERM delivered once the file is written, the file is
\* gone when the process has terminated.
C7_PidFileWrittenThenRemovedOnSignal ==
  /\ lpc \in {"pid_written", "serving", "relaying"} => pidFile = <<pid>>
  /\ (signalled # "none" /\ Terminated) => pidFile = NoFile

\* C8: once SIGTERM has been delivered, the process has stopped by the time
\* the relay timeout of its bridge has gone by.
C8_StopsWithinRelayTimeout ==
  (signalled = "SIGTERM" /\ now - sigTime > RelayTimeout(bridge)) => Terminated

\* C10: a relay in progress has never run for longer than the timeout of its
\* bridge.
C10_RelayReturnsWithinTimeout ==
  rpc = "running" => now - rstart <= RelayTimeout(bridge)

----------------------------------------------------------------------------
(* run_claude_code in the three bridges.  A string is a sequence of        *)
(* tokens: a fixed text of the code is one token, a character of the       *)
(* subprocess's output or of an exception's message is one token.          *)

Long(n) == [i \in 1..n |-> "e"]

\* s[:n]
Truncate(s, n) == SubSeq(s, 1, IF Len(s) < n THEN Len(s) ELSE n)

RECURSIVE LStrip(_)
LStrip(s) == IF s # <<>> /\ Head(s) = " " THEN LStrip(Tail(s)) ELSE s

RECURSIVE RStrip(_)
RStrip(s) ==
  IF s # <<>> /\ s[Len(s)] = " " THEN RStrip(SubSeq(s, 1, Len(s) - 1)) ELSE s

\* s.strip()
Strip(s) == RStrip(LStrip(s))

\* re.sub(r'<thinking>.*?</thinking>\s*', '', s, flags=re.DOTALL)
RECURSIVE StripThinking(_)
StripThinking(s) ==
  IF \A i \in 1..Len(s) : s[i] # "<thinking>" THEN s
  ELSE IF Head(s) = "<thinking>" /\ \E i \in 2..Len(s) : s[i] = "</thinking>"
       THEN LET close == CHOOSE i \in 2..Len(s) :
                           /\ s[i] = "</thinking>"
                           /\ \A j \in 2..(i - 1) : s[j] # "</thinking>"
            IN StripThinking(LStrip(SubSeq(s, close + 1, Len(s))))
       ELSE <<Head(s)>> \o StripThinking(Tail(s))

\* What the subprocess writes and what the call can raise
Stdouts ==
  {<<>>, <<" ">>, <<"h", "i", " ">>, <<"<thinking>", "x", "</thinking>", " ">>,
   <<"<thinking>", "x", "</thinking>", "h", "i">>}

Stderrs == {<<>>, <<"b", "a", "d">>, Long(550)}

Messages == {<<>>, <<"n", "o">>, Long(250)}

Exits == [kind : {"exit"}, stdout : Stdouts, stderr : Stderrs]

Raises ==
  {[kind |-> "raise", exc |-> "TimeoutExpired", msg |-> <<"t">>],
   [kind |-> "raise", exc |-> "FileNotFoundError", msg |-> <<"n", "o">>]}
  \cup [kind : {"raise"}, exc : {"PermissionError"}, msg : Messages]

Outcomes == Exits \cup Raises

\* the classes an exception is an instance of
Bases(exc) ==
  IF exc = "TimeoutExpired" THEN {"TimeoutExpired", "SubprocessError", "Exception"}
  ELSE IF exc = "FileNotFoundError" THEN {"FileNotFoundError", "OSError", "Exception"}
  ELSE {exc, "OSError", "Exception"}

\* mutant: the catch-all clause is missing
ExceptClauses_NoCatchAll(b) == <<"TimeoutExpired">>

\* the except clauses of run_claude_code, in order
ExceptClauses(b) ==
  IF b = "crm" THEN <<"TimeoutExpired", "FileNotFoundError", "Exception">>
  ELSE <<"TimeoutExpired", "Exception">>

\* the clause that handles exc, or "" when none does
Handler(b, exc) ==
  LET cs == ExceptClauses(b)
      hit == {i \in 1..Len(cs) : cs[i] \in Bases(exc)}
  IN IF hit = {} THEN ""
     ELSE cs[CHOOSE i \in hit : \A j \in hit : i <= j]

TimeoutReply(b) ==
  IF b = "slack" THEN <<"Sorry, that took too long to process (10 min timeout).">>
  ELSE IF b = "twilio" THEN <<"Sorry, that took too long (5 min timeout).">>
  ELSE <<"Sorry, that took too long (5 min timeout). Try a simpler request?">>

NotFoundReply == <<"Error: Claude Code not found. Make sure 'claude' is in PATH.">>

ErrorPrefix(b) == IF b = "slack" THEN "Error running Claude Code: " ELSE "Error: "

ErrorLimit(b) == IF b = "twilio" THEN 100 ELSE 200

StderrLimit(b) == IF b = "twilio" THEN 200 ELSE 500

EmptyReply(b) ==
  IF b = "slack" THEN <<"I processed that but have no response.">>
  ELSE IF b = "twilio" THEN <<"Done.">>
  ELSE <<"Processed, but no response generated.">>

\* the reply on the normal path
NormalReply(b, stdout, stderr) ==
  LET out == Strip(stdout)
      response == IF out = <<>> /\ stderr # <<>>
                  THEN <<"Error: ">> \o Truncate(stderr, StderrLimit(b))
                  ELSE out
      cleaned == Strip(StripThinking(response))
  IN IF cleaned = <<>> THEN EmptyReply(b) ELSE cleaned

\* the reply of the except clause cls
ExceptReply(b, cls, msg) ==
  IF cls = "TimeoutExpired" THEN TimeoutReply(b)
  ELSE IF cls = "FileNotFoundError" THEN NotFoundReply
  ELSE <<ErrorPrefix(b)>> \o Truncate(msg, ErrorLimit(b))

(* One bridge process and its calls of run_claude_code.  The Slack and SMS *)
(* bridges call it on handler threads, which interleave between the two    *)
(* reads of USER_SESSIONS; the CRM bridge calls it on its main thread.     *)

InCall(c) == callPc[c] \in {"prompt", "running"}

\* run_claude_code is entered for user k and builds full_prompt
BuildPrompt(c, k) ==
  /\ callPc[c] = "idle"
  /\ \A d \in Calls : d < c => callPc[d] # "idle"
  /\ bridge = "crm" => \A d \in Calls : ~InCall(d)
  /\ callKey' = [callKey EXCEPT ![c] = k]
  /\ callPrompt' = [callPrompt EXCEPT ![c] =
                      IF bridge # "crm" /\ k \in sessions THEN "raw" ELSE "preamble"]
  /\ callFresh' = [callFresh EXCEPT ![c] = k \notin okReturned]
  /\ callPc' = [callPc EXCEPT ![c] = "prompt"]
  /\ UNCHANGED <<sessions, okReturned, callCont, callOutcome, callReply, callSpawns>>
  /\ UNCHANGED <<now, slackVars, smsVars, lifeVars, oauthVars, pollVars>>

\* cmd is built, with --continue if the user has a session, and the
\* subprocess is spawned
SpawnSubprocess(c) ==
  /\ callPc[c] = "prompt"
  /\ callCont' = [callCont EXCEPT ![c] = bridge # "crm" /\ callKey[c] \in sessions]
  /\ callSpawns' = [callSpawns EXCEPT ![c] = @ + 1]
  /\ callPc' = [callPc EXCEPT ![c] = "running"]
  /\ UNCHANGED <<sessions, okReturned, callKey, callPrompt, callOutcome, callReply,
                 callFresh>>
  /\ UNCHANGED <<now, slackVars, smsVars, lifeVars, oauthVars, pollVars>>

\* the subprocess call ends with outcome o: the normal path marks the
\* session and returns the response; an exception is handled by the first
\* except clause that matches, or leaves run_claude_code
RunClaudeCodeEnds(c, o) ==
  LET cls == IF o.kind = "raise" THEN Handler(bridge, o.exc) ELSE ""
  IN /\ callPc[c] = "running"
     /\ callOutcome' = [callOutcome EXCEPT ![c] = o]
     /\ IF o.kind = "exit"
        THEN /\ sessions' = sessions \cup {callKey[c]}
             /\ okReturned' = okReturned \cup {callKey[c]}
             /\ callReply' = [callReply EXCEPT ![c] =
                                NormalReply(bridge, o.stdout, o.stderr)]
             /\ callPc' = [callPc EXCEPT ![c] = "returned"]
        ELSE /\ UNCHANGED <<sessions, okReturned>>
             /\ callReply' = [callReply EXCEPT ![c] =
                                IF cls = "" THEN NoReply
                                ELSE ExceptReply(bridge, cls, o.msg)]
             /\ callPc' = [callPc EXCEPT ![c] = IF cls = "" THEN "raised" ELSE "returned"]
     /\ UNCHANGED <<callKey, callPrompt, callCont, callSpawns, callFresh>>
     /\ UNCHANGED <<now, slackVars, smsVars, lifeVars, oauthVars, pollVars>>

InitRelay ==
  /\ now = 0
  /\ AUTO_RESPOND = FALSE
  /\ traffic = {}
  /\ SlackStarted
  /\ SmsOff
  /\ bridge \in Bridges
  /\ pid = 0
  /\ lpc = "off"
  /\ pidFile = NoFile
  /\ handlers = FALSE
  /\ stop_event = FALSE
  /\ signalled = "none"
  /\ sigTime = 0
  /\ rpc = "idle"
  /\ rstart = 0
  /\ childKind = "normal"
  /\ childExited = FALSE
  /\ stdoutClosed = FALSE
  /\ CallsOff
  /\ OAuthOff
  /\ PollOff

NextRelay ==
  \/ \E c \in Calls, k \in UserKeys : BuildPrompt(c, k)
  \/ \E c \in Calls : SpawnSubprocess(c)
  \/ \E c \in Calls, o \in Outcomes : RunClaudeCodeEnds(c, o)

SpecRelay == InitRelay /\ [][NextRelay]_vars

----------------------------------------------------------------------------
(* Properties of run_claude_code *)

Returned(c) == callPc[c] = "returned"

\* what the code hands back for an exception that its catch-all clause takes
ErrorString(b, msg) == <<ErrorPrefix(b)>> \o Truncate(msg, ErrorLimit(b))

\* run_claude_code never raises, spawns one subprocess at most, and returns
\* a non-empty string: the canned reply on a timeout, the truncated error
\* string on any exception other than those named below
RepliesAndNeverRaises ==
  \A c \in Calls :
    /\ callPc[c] # "raised"
    /\ callSpawns[c] <= 1
    /\ Returned(c) =>
         /\ callReply[c] # <<>>
         /\ \A i \in 1..Len(callReply[c]) : callReply[c][i] # ""
         /\ callOutcome[c].kind = "raise" =>
              /\ callOutcome[c].exc = "TimeoutExpired" =>
                   callReply[c] = TimeoutReply(bridge)
              /\ callOutcome[c].exc \notin {"TimeoutExpired", "FileNotFoundError"} =>
                   /\ callReply[c] = ErrorString(bridge, callOutcome[c].msg)
                   /\ Len(callReply[c]) <= 1 + ErrorLimit(bridge)

NotFound(c) ==
  Returned(c) /\ callOutcome[c].kind = "raise" /\ callOutcome[c].exc = "FileNotFoundError"

\* C11 as stated: in each bridge run_claude_code never raises, does not spawn
\* the subprocess again, and returns a non-empty string for every outcome:
\* the canned took-too-long reply on a timeout, the canned tool-not-found
\* reply when the executable is missing, a truncated error string otherwise.
C11_CannedReplyForEveryOutcome ==
  /\ RepliesAndNeverRaises
  /\ \A c \in Calls : NotFound(c) => callReply[c] = NotFoundReply

\* C11 as the code has it: as above, but a missing executable yields the
\* canned tool-not-found reply in the CRM bridge only; the Slack and SMS
\* bridges return the truncated error string for it.
C11_NotFoundCannedInCrmOnly ==
  /\ RepliesAndNeverRaises
  /\ \A c \in Calls :
       NotFound(c) =>
         callReply[c] = IF bridge = "crm" THEN NotFoundReply
                        ELSE ErrorString(bridge, callOutcome[c].msg)

\* The Slack bridge has returned the error string for a missing executable,
\* and an error string cut to its limit for another exception.
C11_Witness ==
  /\ bridge = "slack"
  /\ NotFound(1) /\ callReply[1] = <<"Error running Claude Code: ", "n", "o">>
  /\ Returned(2) /\ callOutcome[2].kind = "raise"
  /\ callOutcome[2].exc = "PermissionError"
  /\ Len(callOutcome[2].msg) > ErrorLimit(bridge)
  /\ Len(callReply[2]) = 1 + ErrorLimit(bridge)

\* C12: in each bridge a call of run_claude_code sends the long preamble
\* without --continue exactly when no earlier call for its user key had
\* returned normally, and otherwise the raw text with --continue.
C12_PreambleExactlyOnFirstMessage ==
  \A c \in Calls :
    callPc[c] \in {"running", "returned"} =>
      IF callFresh[c]
      THEN callPrompt[c] = "preamble" /\ ~callCont[c]
      ELSE callPrompt[c] = "raw" /\ callCont[c]

-----------------------------------------------------------------------------
(***************************************************************************)
(* OAuth credential resolution.  One skill out of twitter, reddit,         *)
(* discord, linkedin, gmail, gcal runs a series of commands against its    *)
(* tokens directory, which starts empty: get_credentials (the entry of     *)
(* every API command) and, where the skill has one, cmd_login.  A command  *)
(* that needs the browser opens the loopback listener and waits; the       *)
(* listener's requests, the token endpoint's answers and the passage of    *)
(* time are the environment's choices.  Accounts carry no labels in        *)
(* accounts.json, and the Discord bot-token login is left out.             *)
(***************************************************************************)

\* server.timeout = 120 (twitter l.207, reddit l.134, discord l.162,
\* linkedin l.187, gmail l.193); gcal sets none
LISTENER_TIMEOUT == 120

MaxOAuthCalls == 2
MaxOAuthTime == 240
MaxRequests == 2

OAuthTick == LISTENER_TIMEOUT

Skills == {"twitter", "reddit", "discord", "linkedin", "gmail", "gcal"}

\* the skills whose do_oauth_flow loops on handle_request under a timeout
LoopSkills == {"twitter", "reddit", "discord", "linkedin", "gmail"}

\* the skills with a login command running the loopback flow
LoginSkills == {"twitter", "reddit", "discord", "linkedin"}

\* the people who can sign in at the provider, by user name / e-mail
Users == {<<"a", "l">>, <<"b", "o">>}

\* the --account arguments
Accounts == {<<"a", "l">>, <<"B", "o">>}

NoAccount == <<>>

Default == <<"d", "e", "f", "a", "u", "l", "t">>

Unknown == <<"u", "n", "k", "n", "o", "w", "n">>

Names == Users \cup Accounts \cup {Default, Unknown}

\* expires_in of a token response: absent, or seconds
ExpiresIns == {None, <<OAuthTick>>}

\* state = secrets.token_urlsafe(32): the value the flow puts in the
\* authorization URL
state == <<"s", "e", "n", "t">>

\* the state parameter of a callback that carries a code: the value of the
\* authorization URL, or any other value
CallbackStates == {<<state>>, <<<<"o", "t", "h", "e", "r">>>>}

\* the query of a GET on the loopback listener (the state parameter is
\* enumerated for the requests that carry a code)
Requests ==
  {[code |-> <<u>>, error |-> e, state |-> st] :
     u \in Users, e \in {None, <<"access_denied">>}, st \in CallbackStates}
    \cup {[code |-> None, error |-> e, state |-> None] : e \in {None, <<"access_denied">>}}

\* the token endpoint's answer to the code exchange, followed by the
\* answer of the user-info endpoint (info: status 200 or not)
ExchangeResponses ==
  {[status |-> st, expires_in |-> e, refresh_token |-> rt, info |-> i] :
     st \in {200, 400}, e \in ExpiresIns, rt \in BOOLEAN, i \in BOOLEAN}

\* no refresh request was made
NoRefresh == [kind |-> "none", expires_in |-> None, refresh_token |-> FALSE]

\* the token endpoint's answer to a refresh request, or the request raising
RefreshOutcomes ==
  {[kind |-> "ok", expires_in |-> e, refresh_token |-> rt] :
     e \in ExpiresIns, rt \in BOOLEAN}
  \cup {[kind |-> k, expires_in |-> None, refresh_token |-> FALSE] :
          k \in {"status", "raises"}}

\* str.lower()
Lower(ch) ==
  CASE ch = "A" -> "a"
    [] ch = "B" -> "b"
    [] OTHER -> ch

\* \w of the regular expressions: letters, digits, underscore
WordChars ==
  {"a", "b", "d", "e", "f", "k", "l", "n", "o", "t", "u", "w", "A", "B", "_"}

\* the characters re.sub leaves in place: r"[^\w\-.]" everywhere but in
\* reddit, whose pattern is r'[^w.-]'
Kept(s, ch) ==
  IF s = "reddit" THEN ch \in {"w", ".", "-"}
  ELSE ch \in WordChars \cup {"-", "."}

\* re.sub(pattern, "_", account.lower())
SafeName(s, name) ==
  [i \in 1..Len(name) |->
     LET ch == Lower(name[i]) IN IF Kept(s, ch) THEN ch ELSE "_"]

\* token file names, without the token_ prefix and the .json suffix
Paths ==
  Names \cup {SafeName(s, n) : s \in {"twitter", "reddit"}, n \in Names}

Stored(files) == {p \in DOMAIN files : files[p] # None}

\* get_token_path: the file of the account, or without an account the first
\* file the glob lists (in directory order, any of them) or token_default
get_token_path(s, acct, files) ==
  IF acct # NoAccount THEN {SafeName(s, acct)}
  ELSE IF Stored(files) # {} THEN Stored(files)
  ELSE {Default}

\* (datetime.utcnow() + timedelta(seconds=n)).isoformat() + "Z"
IsoFormat(t) == <<t, "Z">>

\* datetime.fromisoformat(s.replace("Z", "+00:00")): seconds since the epoch
FromIsoFormat(s) ==
  LET offset == IF s[2] = "Z" THEN 0 ELSE s[2] IN s[1] - offset

\* the access token the provider issues to a user at a time
AccessToken(u, t) == <<u, t>>

TokenSet(at, exp_in, exp, rt, name, type) ==
  [access_token |-> at, expires_in |-> exp_in, expiry |-> exp,
   refresh_token |-> rt, username |-> name, type |-> type]

\* if "expires_in" in tokens: tokens["expiry"] = now + expires_in, as text
ExpiryOf(exp_in, t) ==
  IF exp_in # None THEN <<IsoFormat(t + exp_in[1])>> ELSE None

\* the tokens dict do_oauth_flow returns for the user u who signed in
FlowTokens(s, u, resp, t) ==
  TokenSet(<<AccessToken(u, t)>>, resp.expires_in,
           IF s = "gmail" THEN None ELSE ExpiryOf(resp.expires_in, t),
           IF resp.refresh_token THEN <<u>> ELSE None,
           IF resp.info THEN <<u>> ELSE None,
           IF s = "discord" THEN "oauth" ELSE "")

\* token_info of gcal's oauth_flow
TokenInfo(u, resp, t) ==
  TokenSet(<<AccessToken(u, t)>>, None, None,
           IF resp.refresh_token THEN <<u>> ELSE None, None, "")

\* a refresh_tokens that leaves the expiry of the new set out
refresh_tokens_NoExpiry(s, rt, r, t) ==
  IF r.kind # "ok" THEN None
  ELSE <<TokenSet(<<AccessToken(rt, t)>>, r.expires_in, None,
                  IF s = "reddit" \/ r.refresh_token THEN <<rt>> ELSE None,
                  None,
                  IF s = "discord" THEN "oauth" ELSE "")>>

\* refresh_tokens / refresh_token: None unless the endpoint answers 200
refresh_tokens(s, rt, r, t) ==
  IF r.kind # "ok" THEN None
  ELSE <<TokenSet(<<AccessToken(rt, t)>>, r.expires_in, ExpiryOf(r.expires_in, t),
                  IF s = "reddit" \/ r.refresh_token THEN <<rt>> ELSE None,
                  None,
                  IF s = "discord" THEN "oauth" ELSE "")>>

\* "expiry" in tokens and datetime.now(expiry.tzinfo) >= expiry
Expired(t, at) == t.expiry # None /\ at >= FromIsoFormat(t.expiry[1])

\* google.oauth2.credentials.Credentials(token=..., refresh_token=..., ...):
\* the skills pass no expiry
Credentials(t) == [t EXCEPT !.expiry = None, !.expires_in = None]

\* Credentials.expired: False without an expiry
CredsExpired(c, at) == c.expiry # None /\ at >= c.expiry[1]

\* Credentials.valid
CredsValid(c, at) == c.access_token # None /\ ~CredsExpired(c, at)

Ended == {"idle", "returned", "exit1", "raised"}

\* what get_credentials does before any browser flow: next is "return",
\* "flow" (do_oauth_flow / oauth_flow is called), "exit1" (sys.exit(1)) or
\* "raise" (an exception leaves get_credentials)
Resolved(next, toks, files, rf) ==
  [next |-> next, tokens |-> toks, files |-> files, refresh |-> rf]

\* twitter_skill.get_credentials, l.409-441
ResolveTwitter(path, r) ==
  LET saved == tokenFiles[path]
      tokens == saved[1]
      new_tokens == refresh_tokens("twitter", tokens.refresh_token[1], r, now)
      kept == [new_tokens[1] EXCEPT !.username = tokens.username]
  IN IF saved = None THEN Resolved("flow", None, tokenFiles, NoRefresh)
     ELSE IF ~Expired(tokens, now) THEN Resolved("return", saved, tokenFiles, NoRefresh)
     ELSE IF tokens.refresh_token = None
          THEN Resolved("flow", None, tokenFiles, NoRefresh)
     ELSE IF r.kind = "raises" THEN Resolved("flow", None, tokenFiles, r)
     ELSE IF new_tokens # None
          THEN Resolved("return", <<kept>>, [tokenFiles EXCEPT ![path] = <<kept>>],
                        r)
     ELSE Resolved("flow", None, tokenFiles, r)

\* reddit_skill.get_credentials, l.206-223
ResolveReddit(path, r) ==
  LET saved == tokenFiles[path]
      tokens == saved[1]
      new_tokens == refresh_tokens("reddit", tokens.refresh_token[1], r, now)
      kept == [new_tokens[1] EXCEPT !.username = tokens.username]
  IN IF saved = None THEN Resolved("exit1", None, tokenFiles, NoRefresh)
     ELSE IF Expired(tokens, now) /\ tokens.refresh_token # None
          THEN IF r.kind = "raises" THEN Resolved("raise", None, tokenFiles, r)
               ELSE IF new_tokens # None
                    THEN Resolved("return", <<kept>>,
                                  [tokenFiles EXCEPT ![path] = <<kept>>], r)
               ELSE Resolved("return", saved, tokenFiles, r)
     ELSE Resolved("return", saved, tokenFiles, NoRefresh)

\* discord_skill.get_credentials, l.274-304
ResolveDiscord(path, r) ==
  LET saved == tokenFiles[path]
      tokens == saved[1]
      new_tokens == refresh_tokens("discord", tokens.refresh_token[1], r, now)
      kept == [new_tokens[1] EXCEPT !.username = tokens.username]
  IN IF saved = None THEN Resolved("exit1", None, tokenFiles, NoRefresh)
     ELSE IF ~(tokens.type = "oauth" /\ Expired(tokens, now))
          THEN Resolved("return", saved, tokenFiles, NoRefresh)
     ELSE IF tokens.refresh_token = None
          THEN Resolved("exit1", None, tokenFiles, NoRefresh)
     ELSE IF r.kind = "raises" THEN Resolved("exit1", None, tokenFiles, r)
     ELSE IF new_tokens # None
          THEN Resolved("return", <<kept>>, [tokenFiles EXCEPT ![path] = <<kept>>],
                        r)
     ELSE Resolved("exit1", None, tokenFiles, r)

\* linkedin_skill.get_credentials, l.369-389
ResolveLinkedin(path) ==
  LET saved == tokenFiles[path]
  IN IF saved = None THEN Resolved("flow", None, tokenFiles, NoRefresh)
     ELSE IF Expired(saved[1], now) THEN Resolved("flow", None, tokenFiles, NoRefresh)
     ELSE Resolved("return", saved, tokenFiles, NoRefresh)

\* creds.refresh(Request()) of google-auth followed by the skill's update of
\* the stored access token
GoogleRefreshed(creds, r) ==
  [creds EXCEPT !.access_token = <<AccessToken(creds.refresh_token[1], now)>>,
                !.expiry = IF r.expires_in # None THEN <<now + r.expires_in[1]>>
                           ELSE None]

\* gmail_skill.get_credentials, l.314-348
ResolveGmail(path, r) ==
  LET saved == tokenFiles[path]
      creds == Credentials(saved[1])
      fresh == GoogleRefreshed(creds, r)
      stored == [saved[1] EXCEPT !.access_token = fresh.access_token]
  IN IF saved = None THEN Resolved("flow", None, tokenFiles, NoRefresh)
     ELSE IF CredsValid(creds, now) THEN Resolved("return", <<creds>>, tokenFiles, NoRefresh)
     ELSE IF CredsExpired(creds, now) /\ creds.refresh_token # None
          THEN IF r.kind = "ok"
               THEN Resolved("return", <<fresh>>,
                             [tokenFiles EXCEPT ![path] = <<stored>>], r)
               ELSE Resolved("flow", None, tokenFiles, r)
     ELSE Resolved("return", <<creds>>, tokenFiles, NoRefresh)

\* gcal_skill.get_credentials, l.253-278
ResolveGcal(path, r) ==
  LET saved == tokenFiles[path]
      creds == Credentials(saved[1])
      fresh == GoogleRefreshed(creds, r)
      stored == [saved[1] EXCEPT !.access_token = fresh.access_token]
  IN IF saved = None THEN Resolved("flow", None, tokenFiles, NoRefresh)
     ELSE IF CredsExpired(creds, now) /\ creds.refresh_token # None
          THEN IF r.kind = "ok"
               THEN Resolved("return", <<fresh>>,
                             [tokenFiles EXCEPT ![path] = <<stored>>], r)
               ELSE Resolved("flow", None, tokenFiles, r)
     ELSE Resolved("return", <<creds>>, tokenFiles, NoRefresh)

Resolve(path, r) ==
  CASE skill = "twitter" -> ResolveTwitter(path, r)
    [] skill = "reddit" -> ResolveReddit(path, r)
    [] skill = "discord" -> ResolveDiscord(path, r)
    [] skill = "linkedin" -> ResolveLinkedin(path)
    [] skill = "gmail" -> ResolveGmail(path, r)
    [] skill = "gcal" -> ResolveGcal(path, r)

\* resolve_account / resolve_account_email of twitter and linkedin: the
\* user whose label in accounts_meta.json equals the argument, whichever
\* case the letters have, and the argument itself when there is none (with
\* several such users, the one the file lists first)
resolve_account(acct) ==
  LET labelled == {u \in DOMAIN accounts_meta :
                     /\ accounts_meta[u] # NoAccount
                     /\ [i \in 1..Len(accounts_meta[u]) |-> Lower(accounts_meta[u][i])]
                          = [i \in 1..Len(acct) |-> Lower(acct[i])]}
  IN IF acct = NoAccount \/ skill \notin {"twitter", "linkedin"} \/ labelled = {}
     THEN {acct}
     ELSE labelled

\* the token file get_credentials looks at: get_token_path(account), in
\* twitter and linkedin of the resolved account, and in gcal {account}.json
\* or the first file of the glob
LookupPaths(acct) ==
  IF skill # "gcal"
  THEN UNION {get_token_path(skill, a, tokenFiles) : a \in resolve_account(acct)}
  ELSE IF acct # NoAccount THEN {acct}
  ELSE IF Stored(tokenFiles) # {} THEN Stored(tokenFiles)
  ELSE {Default}

\* the start of a command: its locals and counters
Begin(c, acct) ==
  /\ skill \in Skills
  /\ opc \in Ended
  /\ calls < MaxOAuthCalls
  /\ calls' = calls + 1
  /\ cmd' = c
  /\ account' = acct
  /\ before' = tokenFiles
  /\ exchanges' = 0
  /\ exchanged' = None
  /\ auth_code' = None
  /\ auth_error' = None
  /\ requests' = <<>>
  /\ returnedAt' = now
  /\ beforeSaved' = savedAs

\* do_oauth_flow up to its wait: the browser is opened and the listener
\* waits in handle_request()
StartsFlow ==
  /\ opc' = "waiting"
  /\ flows' = 1
  /\ flowStart' = now
  /\ waitStart' = now

\* get_credentials(account) up to its return, its exit or the listener's wait
get_credentials(acct, r) ==
  /\ Begin("get_credentials", acct)
  /\ \E path \in LookupPaths(acct) :
       LET o == Resolve(path, r) IN
         /\ tokenFiles' = o.files
         /\ refresh' = o.refresh
         /\ loaded' = tokenFiles[path]
         /\ IF o.next = "flow"
            THEN /\ StartsFlow
                 /\ result' = None
            ELSE /\ opc' = CASE o.next = "return" -> "returned"
                             [] o.next = "exit1" -> "exit1"
                             [] o.next = "raise" -> "raised"
                 /\ result' = o.tokens
                 /\ flows' = 0
                 /\ flowStart' = 0
                 /\ waitStart' = 0
  /\ printed' = "none"
  /\ UNCHANGED <<skill, savedAs, accounts_meta>>
  /\ UNCHANGED <<now, slackVars, smsVars, lifeVars, callVars, pollVars>>

\* cmd_login up to the listener's wait
cmd_login(acct) ==
  /\ skill \in LoginSkills
  /\ Begin("login", acct)
  /\ StartsFlow
  /\ refresh' = NoRefresh
  /\ loaded' = None
  /\ result' = None
  /\ printed' = "none"
  /\ UNCHANGED <<skill, tokenFiles, savedAs, accounts_meta>>
  /\ UNCHANGED <<now, slackVars, smsVars, lifeVars, callVars, pollVars>>

\* cmd_logout: the token file of the account is unlinked if it exists.  gcal
\* wants --account and takes {account}.json; the other skills take
\* get_token_path of the argument (twitter and linkedin of the resolved
\* account), which without an argument is the first file of the glob
cmd_logout(acct) ==
  /\ Begin("logout", acct)
  /\ IF skill = "gcal" /\ acct = NoAccount
     THEN /\ printed' = "no_account"
          /\ UNCHANGED <<tokenFiles, savedAs>>
     ELSE \E p \in LookupPaths(acct) :
            IF p \in DOMAIN tokenFiles /\ tokenFiles[p] # None
            THEN /\ tokenFiles' = [tokenFiles EXCEPT ![p] = None]
                 /\ savedAs' = [savedAs EXCEPT ![p] = {}]
                 /\ printed' = "success"
            ELSE /\ printed' = "not_found"
                 /\ UNCHANGED <<tokenFiles, savedAs>>
  /\ opc' = "returned"
  /\ result' = None
  /\ flows' = 0
  /\ refresh' = NoRefresh
  /\ loaded' = None
  /\ UNCHANGED <<skill, flowStart, waitStart, accounts_meta>>
  /\ UNCHANGED <<now, slackVars, smsVars, lifeVars, callVars, pollVars>>

\* a wait that goes on until a code arrives, whatever the error
Waits_UntilCode(code, error, reqs) == code = None

\* the condition under which do_oauth_flow / oauth_flow calls
\* handle_request(): the while loop's test, or in gcal the single call
Waits(code, error, reqs) ==
  IF skill \in LoopSkills THEN code = None /\ error = None
  ELSE Len(reqs) = 0

\* a handler that takes the code only from a callback that returns the
\* state of the authorization URL
do_GET_ChecksState(q) ==
  IF q.code # None /\ q.state = <<state>> THEN [code |-> q.code, error |-> auth_error]
  ELSE [code |-> auth_code, error |-> auth_error]

\* OAuthCallbackHandler.do_GET
do_GET(q) ==
  IF q.code # None THEN [code |-> q.code, error |-> auth_error]
  ELSE IF skill = "gcal" THEN [code |-> None, error |-> auth_error]
  ELSE IF q.error # None THEN [code |-> auth_code, error |-> q.error]
  ELSE [code |-> auth_code, error |-> auth_error]

\* a flow that goes on to the exchange whatever the listener received
AfterWait_NoCheck(code, error) == "exchange"

\* after the wait: sys.exit(1) on an error (in gcal, on no code), else on
\* to the exchange
AfterWait(code, error) ==
  IF skill \in LoopSkills
  THEN IF error # None THEN "exit1" ELSE "exchange"
  ELSE IF code = None THEN "exit1" ELSE "exchange"

\* handle_request() serves one GET; the flow then tests its loop or exits
HandleRequest(q) ==
  /\ opc = "waiting"
  /\ Len(requests) < MaxRequests
  /\ LET s == do_GET(q)
         reqs == Append(requests, q)
     IN /\ auth_code' = s.code
        /\ auth_error' = s.error
        /\ requests' = reqs
        /\ IF Waits(s.code, s.error, reqs)
           THEN /\ opc' = "waiting"
                /\ waitStart' = now
                /\ UNCHANGED flowStart
           ELSE /\ opc' = AfterWait(s.code, s.error)
                /\ waitStart' = 0
                /\ flowStart' = 0
  /\ UNCHANGED <<skill, tokenFiles, savedAs, calls, cmd, account, flows, exchanges,
                 refresh, loaded, exchanged, before, result, returnedAt,
                 accounts_meta, printed, beforeSaved>>
  /\ UNCHANGED <<now, slackVars, smsVars, lifeVars, callVars, pollVars>>

\* handle_request() returns after server.timeout seconds without a request
\* (handle_timeout does nothing); the while loop calls it again
HandleTimeout ==
  /\ opc = "waiting"
  /\ skill \in LoopSkills
  /\ now - waitStart >= LISTENER_TIMEOUT
  /\ waitStart' = now
  /\ UNCHANGED <<skill, tokenFiles, savedAs, calls, cmd, account, opc, auth_code,
                 auth_error,
                 requests, flowStart, flows, exchanges, refresh, loaded, exchanged,
                 before, result, returnedAt, accounts_meta, printed, beforeSaved>>
  /\ UNCHANGED <<now, slackVars, smsVars, lifeVars, callVars, pollVars>>

\* the name under which the command saves the tokens of the flow
SaveName(toks) ==
  LET byUser == IF toks.username # None THEN toks.username[1]
                ELSE IF account # NoAccount THEN account ELSE Default
      byArg == IF account # NoAccount THEN account
               ELSE IF toks.username # None THEN toks.username[1] ELSE Default
  IN CASE skill \in {"twitter", "linkedin"} -> byUser
       [] skill \in {"reddit", "discord"} -> byArg
       [] skill = "gmail" ->
            IF toks.username # None THEN toks.username[1] ELSE account

\* cmd_login of twitter and linkedin: set_account_meta(username, label) when
\* --account was given and the user name is known
set_account_meta(toks) ==
  IF /\ cmd = "login"
     /\ skill \in {"twitter", "linkedin"}
     /\ account # NoAccount
     /\ toks.username # None
  THEN [accounts_meta EXCEPT ![toks.username[1]] = account]
  ELSE accounts_meta

\* the POST to the token endpoint and what follows it: sys.exit(1) unless
\* the status is 200, else the token set is built and saved and the command
\* returns
TokenExchange(resp) ==
  /\ opc = "exchange"
  /\ exchanges' = exchanges + 1
  /\ IF resp.status # 200
     THEN /\ opc' = "exit1"
          /\ UNCHANGED <<tokenFiles, savedAs, exchanged, result, returnedAt,
                         accounts_meta>>
     ELSE LET u == auth_code[1]
              toks == IF skill = "gcal" THEN TokenInfo(u, resp, now)
                      ELSE FlowTokens(skill, u, resp, now)
              name == IF skill = "gcal" THEN IF resp.info THEN u ELSE Unknown
                      ELSE SaveName(toks)
              paths == IF skill = "gcal" THEN {name}
                       ELSE get_token_path(skill, name, tokenFiles)
          IN /\ \E p \in paths :
                  /\ tokenFiles' = [tokenFiles EXCEPT ![p] = <<toks>>]
                  /\ savedAs' = [savedAs EXCEPT ![p] = @ \cup {name}]
             /\ accounts_meta' = set_account_meta(toks)
             /\ exchanged' = <<[response |-> resp, time |-> now]>>
             /\ result' = <<toks>>
             /\ returnedAt' = now
             /\ opc' = "returned"
  /\ UNCHANGED <<skill, calls, cmd, account, auth_code, auth_error, requests,
                 flowStart, waitStart, flows, refresh, loaded, before, printed,
                 beforeSaved>>
  /\ UNCHANGED <<now, slackVars, smsVars, lifeVars, callVars, pollVars>>

\* time passes between two commands and while the listener waits, up to
\* the moment a pending handle_request() times out
OAuthTimePasses ==
  /\ skill \in Skills
  /\ \/ opc \in Ended /\ 0 < calls /\ calls < MaxOAuthCalls
     \/ opc = "waiting"
  /\ now + OAuthTick <= MaxOAuthTime
  /\ (opc = "waiting" /\ skill \in LoopSkills) => now - waitStart < LISTENER_TIMEOUT
  /\ now' = now + OAuthTick
  /\ UNCHANGED <<slackVars, smsVars, lifeVars, restVars>>

InitOAuth ==
  /\ now = 0
  /\ AUTO_RESPOND = FALSE
  /\ traffic = {}
  /\ SlackStarted
  /\ SmsOff
  /\ LifeOff
  /\ CallsOff
  /\ PollOff
  /\ skill \in Skills
  /\ tokenFiles = [p \in Paths |-> None]
  /\ savedAs = [p \in Paths |-> {}]
  /\ calls = 0
  /\ cmd = "none"
  /\ account = NoAccount
  /\ opc = "idle"
  /\ auth_code = None
  /\ auth_error = None
  /\ requests = <<>>
  /\ flowStart = 0
  /\ waitStart = 0
  /\ flows = 0
  /\ exchanges = 0
  /\ refresh = NoRefresh
  /\ loaded = None
  /\ exchanged = None
  /\ before = [p \in Paths |-> None]
  /\ result = None
  /\ returnedAt = 0
  /\ accounts_meta = [u \in Users |-> NoAccount]
  /\ printed = "none"
  /\ beforeSaved = [p \in Paths |-> {}]

NextOAuth ==
  \/ \E acct \in Accounts \cup {NoAccount}, r \in RefreshOutcomes :
       get_credentials(acct, r)
  \/ \E acct \in Accounts \cup {NoAccount} : cmd_login(acct)
  \/ \E acct \in Accounts \cup {NoAccount} : cmd_logout(acct)
  \/ \E q \in Requests : HandleRequest(q)
  \/ HandleTimeout
  \/ \E resp \in ExchangeResponses : TokenExchange(resp)
  \/ OAuthTimePasses

SpecOAuth == InitOAuth /\ [][NextOAuth]_vars

\* the skills whose token sets carry an expiry that get_credentials tests
ExpiringSkills == {"twitter", "reddit", "discord", "linkedin"}

\* get_credentials has returned a token set
GotCredentials == cmd = "get_credentials" /\ opc = "returned" /\ result # None

\* C13: in Twitter, Reddit, Discord and LinkedIn, a token set that
\* get_credentials returns has its stored expiry strictly later than the time
\* of the return: an expired set is never returned as it is.
C13_ReturnedSetNotExpired ==
  (skill \in ExpiringSkills /\ GotCredentials /\ result[1].expiry # None)
    => FromIsoFormat(result[1].expiry[1]) > returnedAt

\* get_credentials found a saved set whose expiry had passed and which has a
\* refresh_token
LoadedExpiredWithRefreshToken ==
  /\ cmd = "get_credentials"
  /\ loaded # None
  /\ Expired(loaded[1], returnedAt)
  /\ loaded[1].refresh_token # None

\* get_credentials returned, without a browser flow, a set it has written to
\* the file it had read and whose expiry is later than the one it had read
ReturnedLaterExpiry ==
  /\ opc = "returned"
  /\ flows = 0
  /\ result # None
  /\ result[1].expiry # None
  /\ FromIsoFormat(result[1].expiry[1]) > FromIsoFormat(loaded[1].expiry[1])
  /\ \E p \in Paths : before[p] = loaded /\ tokenFiles[p] = result

RefreshingSkills == {"twitter", "reddit", "discord"}

LowerName(name) == [i \in 1..Len(name) |-> Lower(name[i])]

\* no token file has been saved under the account's name
NoSavedFile(acct) ==
  \A p \in Paths : \A n \in savedAs[p] :
    \A a \in resolve_account(acct) : LowerName(n) # LowerName(a)

\* the command returned the tokens its own browser flow obtained
ReturnedFlowTokens ==
  /\ opc = "returned"
  /\ flows = 1
  /\ exchanged # None
  /\ result # None
  /\ result[1].access_token = <<AccessToken(auth_code[1], exchanged[1].time)>>

\* get_credentials was called for an account under whose name no token file
\* had been saved: it found no file, or returned at once all the same
CalledWithoutSavedFile ==
  /\ cmd = "get_credentials"
  /\ account # NoAccount
  /\ \/ flows = 1 /\ loaded = None
     \/ flows = 0 /\ NoSavedFile(account)

\* C15: for an account with no saved token file, get_credentials either
\* completes the loopback flow and returns the tokens it obtained, with their
\* access token, or ends with exit status 1; it returns no token set stored
\* for another account.
C15_NoFileMeansFlowOrExit ==
  (CalledWithoutSavedFile /\ opc \in {"returned", "raised"}) => ReturnedFlowTokens

\* the command's refresh request was answered with a non-200 status or raised
RefreshFailed == cmd = "get_credentials" /\ refresh.kind \in {"status", "raises"}

\* C16: when the refresh of an expired token fails, get_credentials runs the
\* interactive browser flow, and what it then returns are the tokens that
\* flow obtained.
C16_RefreshFailureFallsBackToFlow ==
  RefreshFailed => (flows = 1 /\ (opc = "returned" => ReturnedFlowTokens))

\* the request carries a code: the flow goes on to the token exchange
Proceeds(q) == q.code # None

\* C17 as stated: the listener handles at most one request; the first request
\* ends the wait, the flow going on to the exchange if it carries a code and
\* aborting otherwise.
C17_AtMostOneRequest ==
  /\ Len(requests) <= 1
  /\ Len(requests) = 1 =>
       /\ opc # "waiting"
       /\ IF Proceeds(requests[1]) THEN opc = "exchange" \/ exchanges = 1
          ELSE opc = "exit1" /\ exchanges = 0

\* the requests that end the wait: in gcal any request, in the other skills
\* one that carries code or error
EndsWait(q) == skill = "gcal" \/ q.code # None \/ q.error # None

\* C17: the listener handles one request in gcal, and in the other skills
\* requests up to and including the first that carries code or error; that
\* request ends the wait, the flow going on to the exchange if it carries a
\* code and aborting with exit status 1 otherwise; nothing else ends the wait.
C17_WaitEndsAtFirstCodeOrError ==
  LET n == Len(requests) IN
    /\ \A i \in 1..(n - 1) : ~EndsWait(requests[i])
    /\ opc = "waiting" => \A i \in 1..n : ~EndsWait(requests[i])
    /\ (flows = 1 /\ opc # "waiting") => (n > 0 /\ EndsWait(requests[n]))
    /\ (n > 0 /\ EndsWait(requests[n])) =>
         IF Proceeds(requests[n]) THEN opc = "exchange" \/ exchanges = 1
         ELSE opc = "exit1" /\ exchanges = 0

C17_Witness ==
  /\ skill = "twitter"
  /\ Len(requests) = 2
  /\ ~EndsWait(requests[1])
  /\ requests[2].error # None
  /\ requests[2].code = None
  /\ opc = "exit1"

\* C18: in the flows with a 120-second listener timeout, when no request has
\* arrived the flow is no longer waiting once more than the timeout has passed
\* since the wait began.
C18_StopsWaitingAfterTimeout ==
  (skill \in LoopSkills /\ opc = "waiting" /\ requests = <<>>)
    => now - flowStart <= LISTENER_TIMEOUT

\* a redirect with an error parameter and no code
ErrorRedirect(q) == q.error # None /\ q.code = None

\* C19: once the listener has received a redirect with an error parameter and
\* no code, the flow has ended with exit status 1, no token-exchange request
\* has been sent and every token file is as it was when the command started.
C19_ErrorRedirectAborts ==
  \A i \in 1..Len(requests) :
    ErrorRedirect(requests[i])
      => (opc = "exit1" /\ exchanges = 0 /\ tokenFiles = before)

C19_Witness ==
  /\ skill \in {"twitter", "gcal"}
  /\ flows = 1
  /\ Len(requests) > 0
  /\ ErrorRedirect(requests[Len(requests)])
  /\ Stored(before) # {}
  /\ opc = "exit1"

\* the command's code exchange succeeded with an expires_in in the response
ExchangedWithExpiresIn ==
  /\ opc = "returned"
  /\ exchanged # None
  /\ exchanged[1].response.expires_in # None

\* the token set t holds the access token of the exchange and an absolute
\* expiry of the exchange time plus expires_in
HoldsExchange(t) ==
  /\ t.access_token = <<AccessToken(auth_code[1], exchanged[1].time)>>
  /\ t.expiry # None
  /\ FromIsoFormat(t.expiry[1])
       = exchanged[1].time + exchanged[1].response.expires_in[1]

\* C20: after a successful code exchange whose response has access_token T
\* and expires_in N, a token file holds T and the absolute expiry of the
\* exchange time plus N seconds, in every skill.
C20_PersistedExpiryIsExchangeTimePlusExpiresIn ==
  ExchangedWithExpiresIn
    => \E p \in Paths : tokenFiles[p] # None /\ HoldsExchange(tokenFiles[p][1])

----------------------------------------------------------------------------
(* The CRM bridge's main loop: run_bridge polls the CRM, hands each message *)
(* of the batch to process_message, and waits before the next poll.         *)

MaxPolls == 7
MaxBatch == 2

DEFAULT_POLL_INTERVAL == 3
FAILURE_THRESHOLD == 5
MAX_BACKOFF == 30

\* Values of --interval (any int is accepted)
PollIntervals == {DEFAULT_POLL_INTERVAL, 20, 60}

MsgIds == 1..MaxBatch

\* A message of the poll response: its id and its "message" field, which is
\* a string or JSON null
CrmMessages == [id : MsgIds, message : {None, <<"h", "i">>}]

Batches ==
  UNION {{b \in [1..n -> CrmMessages] : \A i, j \in 1..n : i # j => b[i].id # b[j].id} :
           n \in 0..MaxBatch}

\* What urlopen and json.loads do in one poll
PollOutcomes ==
  [kind : {"ok"}, code : {200}, batch : Batches]
    \cup [kind : {"http"}, code : {401, 500, 502, 503, 504}, batch : {<<>>}]
    \cup [kind : {"error"}, code : {0}, batch : {<<>>}]

poll_for_messages(o, failures) ==
  IF o.kind = "ok"
    THEN [messages |-> o.batch, failures |-> IF failures > 0 THEN 0 ELSE failures]
    ELSE IF o.kind = "http"
      THEN [messages |-> <<>>,
            failures |-> IF o.code = 401 THEN failures
                         ELSE IF o.code \in {502, 503, 504} THEN failures + 1
                         ELSE failures]
      ELSE [messages |-> <<>>, failures |-> failures + 1]

Min(a, b) == IF a < b THEN a ELSE b

EffectiveInterval(interval, failures) ==
  IF failures > FAILURE_THRESHOLD THEN Min(interval * 2, MAX_BACKOFF) ELSE interval

\* text[:100] with text = None raises TypeError before the relay starts
RaisesTypeError(m) == m.message = None

NextMsg_Again(i) == i

\* for msg in messages
NextMsg(i) == i + 1

AfterException_Propagates == "stopped"

\* except Exception as e: print(...), then the loop goes on to its wait
AfterException == "wait"

\* The loop from the point where message i of the batch is due, up to the
\* next blocking call: the relay of message i, or the wait that ends the cycle
Advance(i, msgs, log, failures) ==
  IF i <= Len(msgs) /\ ~RaisesTypeError(msgs[i])
    THEN /\ ppc' = "relay"
         /\ msgIdx' = i
         /\ pollLog' = Append(log, <<"relay", msgs[i].id>>)
         /\ UNCHANGED <<pollCaught, effective_interval>>
    ELSE /\ ppc' = IF i <= Len(msgs) THEN AfterException ELSE "wait"
         /\ msgIdx' = 0
         /\ pollLog' = IF i <= Len(msgs) THEN Append(log, <<"raised", msgs[i].id>>) ELSE log
         /\ pollCaught' = IF i <= Len(msgs) THEN pollCaught + 1 ELSE pollCaught
         /\ effective_interval' = EffectiveInterval(poll_interval, failures)

PollForMessages(o) ==
  /\ ppc = "poll"
  /\ polls < MaxPolls
  /\ polls' = polls + 1
  /\ LET r == poll_for_messages(o, consecutive_failures)
     IN /\ messages' = r.messages
        /\ consecutive_failures' = r.failures
        /\ Advance(1, r.messages, <<>>, r.failures)
  /\ UNCHANGED <<poll_interval, poll_stop_event>>
  /\ UNCHANGED <<now, slackVars, smsVars, lifeVars, callVars, oauthVars>>

\* run_claude_code returns its reply or one of its canned error strings
CrmRelayReturns ==
  /\ ppc = "relay"
  /\ ppc' = "post"
  /\ UNCHANGED <<poll_interval, consecutive_failures, polls, messages, msgIdx,
                 effective_interval, poll_stop_event, pollLog, pollCaught>>
  /\ UNCHANGED <<now, slackVars, smsVars, lifeVars, callVars, oauthVars>>

\* post_response returns True, or False after its retries are used up
CrmPostResponse(success) ==
  /\ ppc = "post"
  /\ Advance(NextMsg(msgIdx), messages,
             Append(pollLog, <<IF success THEN "posted" ELSE "abandoned",
                               messages[msgIdx].id>>),
             consecutive_failures)
  /\ UNCHANGED <<poll_interval, consecutive_failures, polls, messages, poll_stop_event>>
  /\ UNCHANGED <<now, slackVars, smsVars, lifeVars, callVars, oauthVars>>

\* stop_event.wait(effective_interval) returns; while not stop_event.is_set()
PollWaitEnds ==
  /\ ppc = "wait"
  /\ ppc' = IF poll_stop_event THEN "stopped" ELSE "poll"
  /\ UNCHANGED <<poll_interval, consecutive_failures, polls, messages, msgIdx,
                 effective_interval, poll_stop_event, pollLog, pollCaught>>
  /\ UNCHANGED <<now, slackVars, smsVars, lifeVars, callVars, oauthVars>>

\* signal_handler: SIGINT or SIGTERM sets the stop flag
PollSignal ==
  /\ ppc \in {"poll", "relay", "post", "wait"}
  /\ ~poll_stop_event
  /\ poll_stop_event' = TRUE
  /\ UNCHANGED <<poll_interval, consecutive_failures, ppc, polls, messages, msgIdx,
                 effective_interval, pollLog, pollCaught>>
  /\ UNCHANGED <<now, slackVars, smsVars, lifeVars, callVars, oauthVars>>

InitPoll ==
  /\ now = 0
  /\ AUTO_RESPOND = FALSE
  /\ traffic = {}
  /\ SlackStarted
  /\ SmsOff
  /\ LifeOff
  /\ CallsOff
  /\ OAuthOff
  /\ poll_interval \in PollIntervals
  /\ consecutive_failures = 0
  /\ ppc = "poll"
  /\ polls = 0
  /\ messages = <<>>
  /\ msgIdx = 0
  /\ effective_interval = 0
  /\ poll_stop_event = FALSE
  /\ pollLog = <<>>
  /\ pollCaught = 0

NextPoll ==
  \/ \E o \in PollOutcomes : PollForMessages(o)
  \/ CrmRelayReturns
  \/ \E success \in BOOLEAN : CrmPostResponse(success)
  \/ PollWaitEnds
  \/ PollSignal

SpecPoll == InitPoll /\ [][NextPoll]_vars

\* C21: whenever the main loop is at its wait with more than FAILURE_THRESHOLD
\* consecutive poll failures counted, the wait is at least the configured
\* poll interval, and with the counter back at zero (after a successful
\* poll) the wait equals the configured poll interval.
C21_BackoffNeverShorterThanConfigured ==
  ppc = "wait" =>
    /\ consecutive_failures > FAILURE_THRESHOLD => effective_interval >= poll_interval
    /\ consecutive_failures = 0 => effective_interval = poll_interval

\* The relays process_message has started in this poll cycle, in order
StartedRelays == SelectSeq(pollLog, LAMBDA x : x[1] = "relay")

PostingEnded(x, id) == x \in {<<"posted", id>>, <<"abandoned", id>>}

\* C22: within one poll cycle the relays are started in the order of the
\* polled batch, and a relay is started only when the relay before it has
\* returned and the posting of its response has succeeded or been abandoned:
\* every relay entry of the cycle's log but the last is directly followed by
\* the end of that message's posting, and while a relay or a posting is in
\* flight it is that of the message started last.
C22_OneMessageAtATimeInPollOrder ==
  /\ Len(StartedRelays) <= Len(messages)
  /\ \A k \in 1..Len(StartedRelays) : StartedRelays[k][2] = messages[k].id
  /\ \A p \in 1..Len(pollLog) :
       pollLog[p][1] = "relay" =>
         /\ p < Len(pollLog) => PostingEnded(pollLog[p + 1], pollLog[p][2])
         /\ p > 1 => pollLog[p - 1][1] \in {"posted", "abandoned"}
  /\ ppc \in {"relay", "post"} =>
       /\ msgIdx = Len(StartedRelays)
       /\ pollLog[Len(pollLog)] = <<"relay", messages[msgIdx].id>>

\* The relay of the second message of a batch is in flight after the posting
\* of the first message's response was abandoned
C22_Witness ==
  /\ ppc = "relay"
  /\ Len(StartedRelays) = 2
  /\ pollLog[2][1] = "abandoned"

\* The ids of the messages process_message was called for in this poll cycle
Handled == {pollLog[p][2] : p \in {q \in 1..Len(pollLog) : pollLog[q][1] \in {"relay", "raised"}}}

\* C30: when a poll cycle has reached its wait, process_message has been
\* called for every message of the polled batch, also for those that follow
\* a message for which process_message raised an exception.
C30_ExceptionDoesNotSkipRestOfBatch ==
  ppc = "wait" => \A k \in 1..Len(messages) : messages[k].id \in Handled

\* The last call of process_message in this cycle raised an exception
LastRaised == pollLog # <<>> /\ pollLog[Len(pollLog)][1] = "raised"

SameAccount(a, b) == LowerName(a) = LowerName(b)

\* C24: in every skill get_token_path gives two different accounts two
\* different token files, and no token file has been written for more than
\* one account: a login for one account has not overwritten the token set
\* stored for another.
C24_DistinctAccountsDistinctFiles ==
  skill \in Skills =>
    /\ \A a, b \in Users \cup Accounts :
         ~SameAccount(a, b) =>
           get_token_path(skill, a, tokenFiles) # get_token_path(skill, b, tokenFiles)
    /\ \A p \in DOMAIN savedAs : \A a, b \in savedAs[p] : SameAccount(a, b)

\* The token files that were stored for the account a logout names, when the
\* command started
FilesOfNamedAccount ==
  {p \in Paths :
     /\ before[p] # None
     /\ \E n \in beforeSaved[p] : \E a \in resolve_account(account) : SameAccount(n, a)}

\* C25: when a logout that names an account has returned, every token file
\* that was not stored for that account is as it was when the command
\* started, and if no file was stored for that account the tokens directory
\* is unchanged and the command has reported that the account was not found.
C25_LogoutDeletesOnlyNamedAccount ==
  (cmd = "logout" /\ opc = "returned" /\ account # NoAccount) =>
    /\ \A p \in Paths \ FilesOfNamedAccount : tokenFiles[p] = before[p]
    /\ FilesOfNamedAccount = {} => tokenFiles = before /\ printed = "not_found"

\* C29: the loopback listener takes the code of the first callback that
\* carries one, whatever state parameter the callback has: that request is
\* the last one handled, its code is the flow's auth_code, and the flow has
\* gone on to the token exchange (it exits only when the token endpoint
\* refuses the code).
C29_CodeAcceptedWhateverState ==
  \A i \in 1..Len(requests) :
    requests[i].code # None =>
      /\ i = Len(requests)
      /\ auth_code = requests[i].code
      /\ opc \in {"exchange", "returned", "exit1"}
      /\ opc = "exit1" => exchanges = 1

\* Tokens have been obtained and returned with the code of a callback whose
\* state parameter is not the one of the authorization URL
C29_Witness ==
  /\ opc = "returned"
  /\ requests # <<>>
  /\ requests[Len(requests)].code # None
  /\ requests[Len(requests)].state # <<state>>
  /\ exchanged # None
  /\ result # None

\* What load_pending_work makes of pending_work.json, as a map from keys to
\* info dicts
LoadedMap(f, k) == LoadedHeap(f)[DictGet(LoadedWork(f), k)]

\* C26: while the bridge runs, loading pending_work.json gives the keys of
\* PENDING_WORK, each with the info dict PENDING_WORK holds for it (the same
\* start_time and retry_count, present or absent alike).
C26_FileLoadsToPendingWork ==
  up =>
    /\ DictKeys(LoadedWork(file)) = DictKeys(PENDING_WORK)
    /\ Len(LoadedWork(file)) = Len(PENDING_WORK)
    /\ \A k \in DictKeys(PENDING_WORK) :
         LoadedMap(file, k) = heap[DictGet(PENDING_WORK, k)]

\* An item has been completed, and of the two items pending one has been
\* retried by the cleanup pass
C26_Witness ==
  /\ up
  /\ Len(PENDING_WORK) = 2
  /\ \E i \in 1..Len(PENDING_WORK) : RetryCount(heap[PENDING_WORK[i][2]]) = 1
  /\ \E i \in 1..Len(PENDING_WORK) : "retry_count" \notin DOMAIN heap[PENDING_WORK[i][2]]
  /\ \E k \in Keys : removals[k] > 0

\* C27: the relay handle_message started for an item and the retry relay of
\* cleanup_stuck_work for the same item are never in flight together, and
\* whenever the cleanup pass starts a retry relay, the item has no relay of
\* handle_message in flight and is in PENDING_WORK.
C27_RetryOnlyAfterOriginalEnded ==
  /\ [](\A k \in Keys : ~(HandlerInFlight(k) /\ RetryInFlight(k)))
  /\ [][(cpc = "loop" /\ cpc' = "retry") =>
          /\ ~HandlerInFlight(Head(stuck_items)[1])
          /\ DictHas(PENDING_WORK, Head(stuck_items)[1])]_vars

\* A step of the cleanup thread within one run of the bridge
CleanupStep == up /\ up' /\ (cpc' # cpc \/ stuck_items' # stuck_items)

\* C28: the retry_count of every entry of PENDING_WORK is absent, 0 or 1, and
\* no step of the cleanup thread adds a key to PENDING_WORK: an item the
\* handler has removed while it was in the pass's snapshot stays removed.
C28_RetryCountAtMostOneAndNoReinsert ==
  /\ [](\A i \in 1..Len(PENDING_WORK) : RetryCount(heap[PENDING_WORK[i][2]]) \in {0, 1})
  /\ [][CleanupStep => DictKeys(PENDING_WORK') \subseteq DictKeys(PENDING_WORK)]_vars

\* The cleanup pass has started the retry relay of an item of its snapshot
\* that mark_work_completed has taken out of PENDING_WORK in the meantime
C28_Witness ==
  /\ cpc = "retry"
  /\ removals[Head(stuck_items)[1]] > 0
  /\ ~DictHas(PENDING_WORK, Head(stuck_items)[1])
  /\ RetryCount(heap[Head(stuck_items)[2]]) = 1

====
